---- MODULE Spec2Model ----
(***************************************************************************)
(* Verification model of the LA 2028 RFP monitor (ND-AAD/Gov_Oversight):   *)
(* field-mapping health (backend/models/site_config.py), the RFP record    *)
(* and its store (backend/models/rfp.py, backend/models/serialization.py)  *)
(* and the scraping orchestrator (backend/scrapers/rfp_scraper.py).        *)
(*                                                                         *)
(* Conventions.                                                            *)
(*  - confidence_score is kept in exact tenths (0.8 is 8); the code        *)
(*    subtracts 0.2, adds 0.3 and compares with 0.5.                       *)
(*  - A Python dict is a function over Aliases whose value Absent means    *)
(*    "key not present".                                                   *)
(*  - SHA-256 / MD5 digests are modelled as the tagged text they digest    *)
(*    (collision free).                                                    *)
(***************************************************************************)
EXTENDS Integers, Sequences, FiniteSets, TLC

VARIABLES
    site,            \* one SiteConfig object (status, field_mappings)
    constructed,     \* `site` as it was constructed (history variable)
    ops,             \* operations applied to `site` since construction
    store,           \* DataManager: the RFP list persisted in rfps.json
    site_configs,    \* the SiteConfig objects of the configured sites
    request_count,   \* BaseScraper.sessions[site].request_count
    result,          \* scrape_site's result dictionary
    last,            \* the last loop-body step: its input, the store before it, its outcome
    scraped,         \* per URL, the data extracted by the previous scrape of it
    visits,          \* number of URL visits so far (history variable)
    pc,              \* where scrape_all_sites stands
    sites_file,      \* the site ids listed in sites.json, in order
    loaded,          \* the site configurations this run loaded
    todo,            \* the sites the loop of scrape_all_sites has still to visit
    rfp_urls,        \* the URLs the loop of scrape_site has still to visit
    force_full_scan, \* the argument of scrape_all_sites
    results,         \* scrape_all_sites' results dictionary
    site_log,        \* per site: calls of scrape_site, listing fetch, how it was counted
    now,             \* datetime.now(), in hours
    runs,            \* calls of scrape_all_sites so far
    tests,           \* per site: when scrape_site tested it, and the last_test it saw
    saved_configs,   \* the site configurations as sites.json holds them
    clock,           \* time.time(), in seconds
    last_request_time, \* BaseScraper.sessions[site].last_request_time
    session_start,   \* BaseScraper.sessions[site].session_start (NoTime: no session)
    last_fetch,      \* the last call of fetch_page: its input, what it did and returned
    last_request_at, \* per site, when the latest page request went out (history variable)
    window,          \* the 60 seconds after a session's first page request, and
                     \* the page requests counted in them (history variable)
    previous_rfps,   \* rfps.json as main's scrape command loaded it before scraping
    current_rfps,    \* rfps.json as the command loaded it after scraping
    changes,         \* what the command's call of detect_changes returned or raised
    changes_file,    \* ChangeDetector: the change records changes.json holds
    disk,            \* DataManager: the files of the data directory and their contents
    field_mappings,  \* a SiteConfig's field_mappings list
    robots_cache,    \* BaseScraper.robots_cache and robots_last_checked, per origin
    invocation       \* the last call of the operation under study: its arguments
                     \* and what it returned or raised (history variable)

siteVars == <<site, constructed, ops>>
coreVars == <<store, site_configs, request_count, result, last, scraped, visits>>
runVars == <<pc, sites_file, loaded, todo, rfp_urls, force_full_scan, results, site_log>>
clockVars == <<now, runs, tests, saved_configs>>
gateVars == <<clock, last_request_time, session_start, last_fetch, last_request_at,
              window>>
otherVars == <<clockVars, gateVars>>
changeVars == <<previous_rfps, current_rfps, changes>>
auxVars == <<changes_file, disk, field_mappings, robots_cache, invocation>>

\* the parts of the program a specification does not exercise
AuxInit ==
    /\ changes_file = <<>> /\ disk = <<>> /\ field_mappings = <<>>
    /\ robots_cache = <<>> /\ invocation = <<>>
vars == <<site, constructed, ops, store, site_configs, request_count, result,
          last, scraped, visits, pc, sites_file, loaded, todo, rfp_urls,
          force_full_scan, results, site_log, now, runs, tests, saved_configs,
          clock, last_request_time, session_start, last_fetch, last_request_at,
          window, previous_rfps, current_rfps, changes, changes_file, disk,
          field_mappings, robots_cache, invocation>>

----------------------------------------------------------------------------
(* Bounds *)

MaxOps == 4          \* operations applied to one SiteConfig
MaxStored == 1       \* RFPs put into the store before scraping starts
MaxScrapes == 2      \* URL visits of the repeated-scrape specification
MaxRuns == 2         \* calls of scrape_all_sites in the repeated-run specification
MaxFetches == 6      \* calls of fetch_page in the gateway specification
MaxIdle == 100       \* seconds after which the gateway is called and idled on no more

----------------------------------------------------------------------------
(* backend/models/site_config.py *)

Aliases == {"title", "status"}

SiteStatus == {"active", "error", "testing", "disabled"}

\* confidence scores a mapping is constructed with, in tenths
InitConfidences == {5, 8, 9}

\* None where a datetime is expected; datetimes are hours, counted from 0
NoTime == -1

\* the hour at which the first run starts
StartHour == 30

Max(a, b) == IF a >= b THEN a ELSE b
Min(a, b) == IF a <= b THEN a ELSE b

\* FieldMapping(alias, selector, data_type, training_value, confidence):
\* the dataclass declares no `status` field, so a fresh object has none
\* ("unset"); location_binder.test_site_configuration assigns one.
FieldMapping(sel, conf) ==
    [selector |-> sel, confidence_score |-> conf, validation_errors |-> <<>>,
     status |-> "unset", last_validated |-> "None"]

\* FieldMapping.is_valid
is_valid(fm) ==
    /\ fm.confidence_score > 5
    /\ Len(fm.validation_errors) = 0
    /\ fm.selector # "None"

\* FieldMapping.add_validation_error
add_validation_error(fm, error) ==
    [fm EXCEPT !.validation_errors = Append(@, error),
               !.confidence_score = Max(0, @ - 2)]

\* FieldMapping.clear_validation_errors
clear_validation_errors(fm) ==
    [fm EXCEPT !.validation_errors = <<>>,
               !.confidence_score = Min(10, @ + 3),
               !.last_validated = "set"]

\* SiteConfig.is_healthy:
\*   valid_mappings >= len(field_mappings) * 0.8, only for an ACTIVE site
is_healthy(sc) ==
    /\ sc.status = "active"
    /\ LET valid_mappings ==
              Cardinality({a \in DOMAIN sc.field_mappings :
                              is_valid(sc.field_mappings[a])})
       IN valid_mappings * 10 >= Cardinality(DOMAIN sc.field_mappings) * 8

\* SiteConfig.update_test_results
update_test_results(sc, test_result) ==
    [sc EXCEPT !.last_test = test_result.timestamp,
               !.status = IF test_result.success
                          THEN (IF @ = "testing" THEN "active" ELSE @)
                          ELSE "error"]

\* LocationBinder.test_site_configuration: every (mock) field test succeeds,
\* so every mapping gets status WORKING and a validation timestamp.
binder_test_site_configuration(sc) ==
    [sc EXCEPT !.field_mappings =
        [a \in DOMAIN @ |-> [@[a] EXCEPT !.status = "working",
                                         !.last_validated = "set"]]]

----------------------------------------------------------------------------
(* A SiteConfig object and the operations of its class *)

SiteInit ==
    /\ site \in [status : {"testing", "active"},
                 last_test : {NoTime},
                 field_mappings :
                    [Aliases -> {FieldMapping(".rfp", c) : c \in InitConfidences}]]
    /\ constructed = site
    /\ ops = <<>>
    /\ store = <<>>
    /\ site_configs = <<>>
    /\ request_count = <<>>
    /\ result = <<>>
    /\ last = <<>>
    /\ scraped = <<>>
    /\ visits = 0
    /\ pc = "none" /\ sites_file = <<>> /\ loaded = <<>> /\ todo = <<>>
    /\ rfp_urls = <<>> /\ force_full_scan = FALSE /\ results = <<>>
    /\ site_log = <<>>
    /\ now = StartHour /\ runs = 0 /\ tests = <<>> /\ saved_configs = <<>>
    /\ clock = 0 /\ last_request_time = <<>> /\ session_start = <<>>
    /\ last_fetch = <<>> /\ last_request_at = <<>> /\ window = <<>>
    /\ previous_rfps = <<>> /\ current_rfps = <<>> /\ changes = <<>>
    /\ AuxInit

AddValidationError(a) ==
    /\ Len(ops) < MaxOps
    /\ site' = [site EXCEPT !.field_mappings[a] =
                                add_validation_error(@, "Selector not found")]
    /\ ops' = Append(ops, <<"add_validation_error", a>>)
    /\ UNCHANGED <<constructed, changeVars, auxVars, coreVars, runVars, otherVars>>

ClearValidationErrors(a) ==
    /\ Len(ops) < MaxOps
    /\ site' = [site EXCEPT !.field_mappings[a] = clear_validation_errors(@)]
    /\ ops' = Append(ops, <<"clear_validation_errors", a>>)
    /\ UNCHANGED <<constructed, changeVars, auxVars, coreVars, runVars, otherVars>>

BinderTestSiteConfiguration ==
    /\ Len(ops) < MaxOps
    /\ site' = binder_test_site_configuration(site)
    /\ ops' = Append(ops, <<"test_site_configuration", "all">>)
    /\ UNCHANGED <<constructed, changeVars, auxVars, coreVars, runVars, otherVars>>

UpdateTestResults(success) ==
    /\ Len(ops) < MaxOps
    /\ site' = update_test_results(site, [success |-> success, timestamp |-> now])
    /\ ops' = Append(ops, <<"update_test_results", IF success THEN "ok" ELSE "failed">>)
    /\ UNCHANGED <<constructed, changeVars, auxVars, coreVars, runVars, otherVars>>

SiteNext ==
    \/ \E a \in Aliases : AddValidationError(a)
    \/ \E a \in Aliases : ClearValidationErrors(a)
    \/ BinderTestSiteConfiguration
    \/ \E success \in BOOLEAN : UpdateTestResults(success)

SpecSite == SiteInit /\ [][SiteNext]_vars

----------------------------------------------------------------------------
(* Field-mapping status and site health: C5, C6, C7 *)

\* The status the documentation assigns to a mapping with n recorded errors.
DocumentedStatuses(n) ==
    IF n = 0 THEN {"working", "untested"}
    ELSE IF n <= 2 THEN {"degraded"} ELSE {"broken"}

LastOp == ops[Len(ops)]

\* C5: a mapping's status is determined by the number of validation errors
\* recorded since creation or the last clear (0: working or untested, 1-2:
\* degraded, 3 or more: broken), and clear_validation_errors empties the
\* error list and leaves the status working with confidence inside [0,1].
C5_StatusFollowsErrorCount ==
    /\ \A a \in Aliases :
          (ops # <<>> /\ LastOp = <<"add_validation_error", a>>) =>
              site.field_mappings[a].status
                  \in DocumentedStatuses(Len(site.field_mappings[a].validation_errors))
    /\ \A a \in Aliases :
          (ops # <<>> /\ LastOp = <<"clear_validation_errors", a>>) =>
              /\ site.field_mappings[a].validation_errors = <<>>
              /\ site.field_mappings[a].status = "working"
              /\ site.field_mappings[a].confidence_score \in 0..10

\* C6: is_healthy() is true exactly when the mappings that are not broken and
\* have confidence strictly above 0.5 make up at least 0.8 of all mappings
\* (stated for sites in operation, status ACTIVE).
C6_HealthyIffShareOfGoodMappings ==
    LET good == {a \in Aliases :
                    /\ "broken" \notin
                          DocumentedStatuses(Len(site.field_mappings[a].validation_errors))
                    /\ site.field_mappings[a].status # "broken"
                    /\ site.field_mappings[a].confidence_score > 5}
    IN site.status = "active" =>
          (is_healthy(site) <=> (Cardinality(good) * 10 >= Cardinality(Aliases) * 8))

\* C7: a newly constructed (and activated) site whose two mappings have
\* confidence at least 0.8 is healthy, stays healthy after one validation error on one mapping,
\* is unhealthy once that mapping has three errors, and is healthy again
\* after clear_validation_errors on that mapping.
C7_DegradationWorkflow ==
    LET E == <<"add_validation_error", "status">>
        C == <<"clear_validation_errors", "status">>
    IN (/\ constructed.status = "active"
        /\ \A a \in Aliases : constructed.field_mappings[a].confidence_score >= 8) =>
          /\ (ops = <<>> => is_healthy(site))
          /\ (ops = <<E>> => is_healthy(site))
          /\ (ops = <<E, E, E>> => ~is_healthy(site))
          /\ (ops = <<E, E, E, C>> => is_healthy(site))

----------------------------------------------------------------------------
(* backend/models/rfp.py *)

Absent == "<absent>"          \* the key is not in the dictionary
None == "None"
Raises == "<raises>"          \* the selector query raised an exception

\* None where an id, an RFP or an extracted_data dictionary is expected
NoneId == <<"None">>
NoneRfp == [id |-> NoneId]
NoneData == [a \in Aliases |-> None]

Titles == {"Olympic Village Surveillance System", "Office furniture procurement"}
StatusValues == {"Active", "Closed"}

\* dict.get(key, default)
Get(d, k, default) == IF d[k] = Absent THEN default ELSE d[k]

\* the fields the RFP dataclass declares without a default
RFPRequiredFields ==
    {"id", "title", "url", "source_site", "posted_date", "extracted_fields",
     "detected_at", "content_hash", "categories"}

\* RFP.generate_content_hash: sha256 of "title:url:json.dumps(extracted_fields)"
generate_content_hash(rfp) ==
    <<"sha256", "title:url:json", rfp.title, rfp.url, rfp.extracted_fields>>

\* RFP(**kwargs): the generated __init__ raises TypeError when a required
\* field is not passed; __post_init__ fills an empty content_hash and the
\* change history.
RFP(kwargs) ==
    IF ~(RFPRequiredFields \subseteq DOMAIN kwargs)
    THEN [exception |-> "TypeError"]
    ELSE LET obj == [id |-> kwargs.id, title |-> kwargs.title, url |-> kwargs.url,
                     source_site |-> kwargs.source_site,
                     posted_date |-> kwargs.posted_date,
                     extracted_fields |-> kwargs.extracted_fields,
                     content_hash |-> kwargs.content_hash,
                     categories |-> kwargs.categories,
                     change_history |-> <<>>]
         IN [obj EXCEPT !.content_hash =
                            IF @ = "" THEN generate_content_hash(obj) ELSE @]

IsException(x) == "exception" \in DOMAIN x

\* RFP.add_change_record
add_change_record(rfp, field, old_value, new_value) ==
    [rfp EXCEPT !.change_history =
        Append(@, [field |-> field, old_value |-> old_value, new_value |-> new_value])]

\* RFP.update_field
update_field(rfp, field, new_value) ==
    LET old_value == Get(rfp.extracted_fields, field, None)
    IN IF old_value # new_value
       THEN LET changed == add_change_record(
                               [rfp EXCEPT !.extracted_fields[field] = new_value],
                               field, old_value, new_value)
            IN [changed EXCEPT !.content_hash = generate_content_hash(changed)]
       ELSE rfp

----------------------------------------------------------------------------
(* backend/models/serialization.py: DataManager over the list in rfps.json *)

\* DataManager.get_rfp_by_id
get_rfp_by_id(rfps, rfp_id) ==
    LET hits == {i \in 1..Len(rfps) : rfps[i].id = rfp_id}
    IN IF hits = {} THEN NoneRfp
       ELSE rfps[CHOOSE i \in hits : \A j \in hits : i <= j]

\* DataManager.add_rfp: skipped when the id or the URL is already stored
add_rfp(rfps, rfp) ==
    IF \E i \in 1..Len(rfps) : rfps[i].id = rfp.id \/ rfps[i].url = rfp.url
    THEN rfps
    ELSE Append(rfps, rfp)

\* DataManager.update_rfp: replaces the first record with the same id
update_rfp(rfps, rfp) ==
    LET hits == {i \in 1..Len(rfps) : rfps[i].id = rfp.id}
    IN IF hits = {} THEN rfps
       ELSE [rfps EXCEPT ![CHOOSE i \in hits : \A j \in hits : i <= j] = rfp]

----------------------------------------------------------------------------
(* backend/models/validation.py and backend/scrapers/rfp_scraper.py *)

\* validate_olympic_relevance on the text "<title> <description>", tabulated
\* for the titles of the model (score in tenths)
validate_olympic_relevance(title) ==
    IF title = "Olympic Village Surveillance System"
    THEN [is_relevant |-> TRUE,
          keywords |-> {"olympic", "olympic village", "surveillance"},
          score |-> 10]
    ELSE [is_relevant |-> FALSE, keywords |-> {}, score |-> 0]

\* RFPScraper._categorize_rfp
_categorize_rfp(extracted_data) ==
    LET r == validate_olympic_relevance(Get(extracted_data, "title", ""))
        surveillance_keywords ==
            {"surveillance", "facial recognition", "biometric", "monitoring"}
        security_keywords == {"security", "police", "law enforcement"}
        categories ==
            IF r.is_relevant
            THEN <<"Olympics">>
                 \o (IF r.score > 7 THEN <<"High Priority">> ELSE <<>>)
                 \o (IF r.keywords \cap surveillance_keywords # {}
                     THEN <<"Surveillance">> ELSE <<>>)
                 \o (IF r.keywords \cap security_keywords # {}
                     THEN <<"Security">> ELSE <<>>)
            ELSE <<>>
    IN IF categories # <<>> THEN categories ELSE <<"General">>

\* RFPScraper._generate_rfp_id: md5 of "url:title"
_generate_rfp_id(url, extracted_data) ==
    <<"md5", url, Get(extracted_data, "title", "")>>

\* RFPScraper._generate_content_hash: sha256 of str(sorted extracted_data)
_generate_content_hash(extracted_data) ==
    <<"sha256", "str(sorted)", extracted_data>>

\* RFPScraper._create_rfp: the RFP(...) call passes no posted_date
_create_rfp(rfp_id, url, site_id, extracted_data) ==
    RFP([id |-> rfp_id,
         title |-> Get(extracted_data, "title", "Unknown RFP"),
         url |-> url,
         source_site |-> site_id,
         extracted_fields |-> extracted_data,
         detected_at |-> "now",
         content_hash |-> _generate_content_hash(extracted_data),
         categories |-> _categorize_rfp(extracted_data)])

\* the order in which extract_data fills the dictionary (field_mappings order)
FieldOrder == <<"title", "status">>

RECURSIVE UpdateFields(_, _, _)
\* RFPScraper._update_rfp, the loop over new_data.items()
UpdateFields(existing_rfp, new_data, fields) ==
    IF fields = <<>> THEN existing_rfp
    ELSE LET field == Head(fields)
             next == IF /\ new_data[field] # Absent
                        /\ existing_rfp.extracted_fields[field] # Absent
                        /\ existing_rfp.extracted_fields[field] # new_data[field]
                     THEN update_field(existing_rfp, field, new_data[field])
                     ELSE existing_rfp
         IN UpdateFields(next, new_data, Tail(fields))

\* RFPScraper._update_rfp
_update_rfp(existing_rfp, new_data) ==
    [UpdateFields(existing_rfp, new_data, FieldOrder)
        EXCEPT !.categories = _categorize_rfp(new_data)]

----------------------------------------------------------------------------
(* backend/scrapers/base_scraper.py *)

SiteIds == {"la_county", "la_city"}

\* RFPScraper._discover_rfp_urls: the three URLs "<base_url>/rfp/00n"
mock_urls(site_id) ==
    << <<site_id, "/rfp/001">>, <<site_id, "/rfp/002">>, <<site_id, "/rfp/003">> >>

Range(seq) == {seq[i] : i \in 1..Len(seq)}

\* what the network does to one fetch_page call
FetchOutcomes == {"ok", "robots_disallowed", "timeout"}

\* BaseScraper.fetch_page: robots.txt check, then enforce_rate_limit (which
\* counts the request), then the attempts; a timeout that outlasts the
\* retries surfaces as NetworkError.
fetch_page(outcome, count) ==
    IF outcome = "robots_disallowed"
    THEN [exception |-> "ScrapingError: Access disallowed by robots.txt",
          request_count |-> count]
    ELSE IF outcome = "timeout"
    THEN [exception |-> "NetworkError: Request timeout",
          request_count |-> count + 1]
    ELSE [content |-> "html", request_count |-> count + 1]

\* what the selectors of each mapping yield on a page: a value, nothing
\* (Absent) or an exception (Raises)
PageContents ==
    {p \in [Aliases -> Titles \cup StatusValues \cup {Absent, Raises}] :
        /\ p.title \in Titles
        /\ p.status \in StatusValues \cup {Absent, Raises}}

\* BaseScraper.extract_data: a mapping that yields nothing is left out; one
\* whose query raises records a validation error
extract_data(site_config, page) ==
    [data |-> [a \in Aliases |-> IF page[a] = Raises THEN Absent ELSE page[a]],
     site_config |->
        [site_config EXCEPT !.field_mappings =
            [a \in DOMAIN @ |->
                IF page[a] = Raises
                THEN add_validation_error(@[a], "Extraction failed")
                ELSE @[a]]]]

\* the inputs of one URL visit
PageInputs ==
    {[fetch |-> "ok", page |-> p] : p \in PageContents}
    \cup {[fetch |-> f, page |-> NoneData] : f \in FetchOutcomes \ {"ok"}}

----------------------------------------------------------------------------
(* backend/scrapers/rfp_scraper.py: RFPScraper._process_rfp_url *)

\* The value is a record of the state the call leaves behind and of what it
\* returns (outcome new / updated / unchanged) or raises (outcome error).
_process_rfp_url(rfps, site_config, count, url, input) ==
    LET fetched == fetch_page(input.fetch, count)
        base == [store |-> rfps, site_config |-> site_config,
                 request_count |-> fetched.request_count,
                 data |-> NoneData, rfp_id |-> NoneId, error |-> None]
    IN IF IsException(fetched)
       THEN [base EXCEPT !.error = fetched.exception] @@ [outcome |-> "error"]
       ELSE
       LET extracted == extract_data(site_config, input.page)
           extracted_data == extracted.data
           rfp_id == _generate_rfp_id(url, extracted_data)
           existing_rfp == get_rfp_by_id(rfps, rfp_id)
           seen == [base EXCEPT !.site_config = extracted.site_config,
                                !.data = extracted_data, !.rfp_id = rfp_id]
       IN IF existing_rfp.id # NoneId
          THEN IF existing_rfp.content_hash # _generate_content_hash(extracted_data)
               THEN [seen EXCEPT !.store =
                        update_rfp(rfps, _update_rfp(existing_rfp, extracted_data))]
                    @@ [outcome |-> "updated"]
               ELSE seen @@ [outcome |-> "unchanged"]
          ELSE LET new_rfp == _create_rfp(rfp_id, url, site_config.id, extracted_data)
               IN IF IsException(new_rfp)
                  THEN [seen EXCEPT !.error = new_rfp.exception]
                       @@ [outcome |-> "error"]
                  ELSE [seen EXCEPT !.store = add_rfp(rfps, new_rfp)]
                       @@ [outcome |-> "new"]

\* scrape_site's result dictionary
SiteResult(site_id) ==
    [success |-> FALSE, site_id |-> site_id, new_rfps |-> <<>>,
     updated_rfps |-> <<>>, errors |-> <<>>]

\* The body of scrape_site's loop over rfp_urls for one URL: the call, the
\* bookkeeping of its result and the except clause.
LoopBody(url, input) ==
    LET site_id == result.site_id
        step == _process_rfp_url(store, site_configs[site_id],
                                 request_count[site_id], url, input)
    IN /\ store' = step.store
       /\ site_configs' = [site_configs EXCEPT ![site_id] = step.site_config]
       /\ request_count' = [request_count EXCEPT ![site_id] = step.request_count]
       /\ result' =
            IF step.outcome = "new"
            THEN [result EXCEPT !.new_rfps = Append(@, step.rfp_id)]
            ELSE IF step.outcome = "updated"
            THEN [result EXCEPT !.updated_rfps = Append(@, step.rfp_id)]
            ELSE IF step.outcome = "error"
            THEN [result EXCEPT !.errors =
                     Append(@, [rfp_url |-> url, error |-> step.error])]
            ELSE result
       /\ last' = [kind |-> "scrape", url |-> url, input |-> input,
                   data |-> step.data, rfp_id |-> step.rfp_id,
                   outcome |-> step.outcome, before |-> store,
                   previous |-> scraped[url]]
       /\ scraped' = IF step.data # NoneData
                     THEN [scraped EXCEPT ![url] = step.data]
                     ELSE scraped
       /\ visits' = visits + 1

----------------------------------------------------------------------------
(* Repeated scraping of the pages of one site over a store that other       *)
(* callers of DataManager.add_rfp have filled                               *)

\* a site as create_site_configuration leaves it, after activation
SiteConfig(site_id, status, confidence) ==
    [id |-> site_id, status |-> status, last_test |-> NoTime,
     last_scrape |-> "None", rfp_count |-> 0,
     scraper_settings |-> [delay_between_requests |-> 2],
     field_mappings |-> [a \in Aliases |-> FieldMapping(".rfp", confidence)]]

AllUrls == UNION {Range(mock_urls(s)) : s \in SiteIds}

\* the RFPs a caller stores for a page: built like _create_rfp builds them,
\* with the posted_date the dataclass requires
StorableRfps(site_id) ==
    {RFP([id |-> _generate_rfp_id(url, d),
          title |-> Get(d, "title", "Unknown RFP"),
          url |-> url, source_site |-> site_id, posted_date |-> "2024-12-16",
          extracted_fields |-> d, detected_at |-> "now",
          content_hash |-> _generate_content_hash(d),
          categories |-> _categorize_rfp(d)]) :
        url \in Range(mock_urls(site_id)),
        d \in {extract_data(SiteConfig(site_id, "active", 8), p).data : p \in PageContents}}

RfpInit ==
    /\ site = <<>> /\ constructed = <<>> /\ ops = <<>>
    /\ store = <<>>
    /\ site_configs = [s \in SiteIds |-> SiteConfig(s, "active", 8)]
    /\ request_count = [s \in SiteIds |-> 0]
    /\ result \in {SiteResult(s) : s \in SiteIds}
    /\ last = [kind |-> "none"]
    /\ scraped = [u \in AllUrls |-> NoneData]
    /\ visits = 0
    /\ pc = "none" /\ sites_file = <<>> /\ loaded = <<>> /\ todo = <<>>
    /\ rfp_urls = <<>> /\ force_full_scan = FALSE /\ results = <<>>
    /\ site_log = <<>>
    /\ now = StartHour /\ runs = 0 /\ tests = <<>> /\ saved_configs = <<>>
    /\ clock = 0 /\ last_request_time = <<>> /\ session_start = <<>>
    /\ last_fetch = <<>> /\ last_request_at = <<>> /\ window = <<>>
    /\ previous_rfps = <<>> /\ current_rfps = <<>> /\ changes = <<>>
    /\ AuxInit

\* DataManager.add_rfp, called before scraping starts
AddRfp(rfp) ==
    /\ last.kind # "scrape"
    /\ Len(store) < MaxStored
    /\ store' = add_rfp(store, rfp)
    /\ last' = [kind |-> "add_rfp"]
    /\ UNCHANGED <<siteVars, changeVars, auxVars, runVars, otherVars, site_configs, request_count,
                   result, scraped, visits>>

\* one visit of a URL of the site (scrape_site's loop body)
ScrapeUrl(url, input) ==
    /\ visits < MaxScrapes
    /\ LoopBody(url, input)
    /\ UNCHANGED <<siteVars, changeVars, auxVars, runVars, otherVars>>

RfpNext ==
    \/ \E rfp \in StorableRfps(result.site_id) : AddRfp(rfp)
    \/ \E url \in Range(mock_urls(result.site_id)), input \in PageInputs :
          ScrapeUrl(url, input)

SpecRfp == RfpInit /\ [][RfpNext]_vars

----------------------------------------------------------------------------
(* Create / update / no-op per scraped page: C1, C2, C3, C4 *)

\* the last step visited a page and extracted its data
Visited == last.kind = "scrape" /\ last.data # NoneData

\* the record the visited page's id named before, and names after, the step
StoredBefore == get_rfp_by_id(last.before, last.rfp_id)
StoredAfter == get_rfp_by_id(store, last.rfp_id)

\* C1: re-scraping a page whose extracted content is the same as at the
\* previous scrape of that page is a no-op: it is counted neither as new nor
\* as updated, and no stored RFP changes its content_hash, change_history,
\* extracted fields or categories (so corpus change detection sees nothing).
C1_RescrapeUnchangedIsNoOp ==
    (Visited /\ last.previous = last.data) =>
        /\ last.outcome \notin {"new", "updated"}
        /\ Len(store) = Len(last.before)
        /\ \A i \in 1..Len(store) :
              /\ store[i].id = last.before[i].id
              /\ store[i].content_hash = last.before[i].content_hash
              /\ store[i].change_history = last.before[i].change_history
              /\ store[i].extracted_fields = last.before[i].extracted_fields
              /\ store[i].categories = last.before[i].categories

\* C2: a visited page whose id matches no stored RFP is created, persisted
\* and counted as new; every RFP reported as new is in the store.
C2_UnknownIdIsCreated ==
    /\ (Visited /\ StoredBefore.id = NoneId) =>
          (last.outcome = "new" /\ StoredAfter.id # NoneId)
    /\ \A i \in 1..Len(result.new_rfps) :
          get_rfp_by_id(store, result.new_rfps[i]).id # NoneId

\* C3: when the id is stored and the content hash differs, afterwards every
\* extracted field has the extracted value in the stored record,
\* change_history has grown by one entry per differing field (a field absent
\* from the stored record differs), the hash is recomputed over the new
\* content and the page is counted as updated.
C3_UpdateAppliedFieldByField ==
    (/\ Visited
     /\ StoredBefore.id # NoneId
     /\ StoredBefore.content_hash # _generate_content_hash(last.data)) =>
        LET differing == {f \in Aliases :
                            /\ last.data[f] # Absent
                            /\ StoredBefore.extracted_fields[f] # last.data[f]}
        IN /\ \A f \in Aliases :
                last.data[f] # Absent => StoredAfter.extracted_fields[f] = last.data[f]
           /\ Len(StoredAfter.change_history)
                = Len(StoredBefore.change_history) + Cardinality(differing)
           /\ StoredAfter.content_hash
                \in {generate_content_hash(StoredAfter),
                     _generate_content_hash(StoredAfter.extracted_fields)}
           /\ last.outcome = "updated"

\* C4: a stored page re-scraped at the same URL with another title is
\* treated as a new RFP: a record with the new id is added and counted as
\* new, and the record stored for that URL stays as it was.
C4_RetitledPageIsNewRfp ==
    (/\ Visited
     /\ \E i \in 1..Len(last.before) :
            /\ last.before[i].url = last.url
            /\ last.before[i].title # Get(last.data, "title", "")) =>
        /\ StoredAfter.id # NoneId
        /\ last.outcome = "new"
        /\ \A i \in 1..Len(last.before) :
              last.before[i].url = last.url => store[i] = last.before[i]


----------------------------------------------------------------------------
(* backend/scrapers/rfp_scraper.py: RFPScraper.scrape_all_sites and         *)
(* RFPScraper.scrape_site, one run over the sites of sites.json             *)

\* the methods class SiteConfig defines
SiteConfigMethods ==
    {"add_field_mapping", "remove_field_mapping", "get_field_mapping",
     "update_test_results", "is_healthy", "get_required_fields",
     "get_missing_required_fields", "to_dict", "from_dict"}

\* scrape_all_sites' results dictionary
RunResults ==
    [success |-> TRUE, sites_processed |-> 0, sites_failed |-> 0,
     new_rfps |-> <<>>, updated_rfps |-> <<>>, errors |-> <<>>]

\* scrape_site's health check: an unhealthy site is skipped unless forced
ShouldSkip_NeverSkips(site_config, force) == FALSE

ShouldSkip(site_config, force) == ~is_healthy(site_config) /\ ~force

\* RFPScraper._should_test_field_mappings, called at hour t
_should_test_field_mappings(site_config, t) ==
    IF site_config.last_test = NoTime
    THEN TRUE
    ELSE LET hours_since_test == t - site_config.last_test
         IN hours_since_test > 24

\* SiteConfig.to_dict, json, SiteConfig.from_dict: asdict() writes the fields
\* the dataclasses declare, so a status assigned to a FieldMapping is not
\* written; datetimes survive isoformat() / fromisoformat() unchanged
SavedAndLoaded(site_config) ==
    [site_config EXCEPT !.field_mappings =
        [a \in DOMAIN @ |-> [@[a] EXCEPT !.status = "unset"]]]

\* scrape_all_sites' bookkeeping of one site's result
Aggregate_ForgetsFailedSites(res, site_result) ==
    IF site_result.success
    THEN [res EXCEPT !.sites_processed = @ + 1,
                     !.new_rfps = @ \o site_result.new_rfps,
                     !.updated_rfps = @ \o site_result.updated_rfps]
    ELSE [res EXCEPT !.errors = @ \o site_result.errors]

Aggregate(res, site_result) ==
    IF site_result.success
    THEN [res EXCEPT !.sites_processed = @ + 1,
                     !.new_rfps = @ \o site_result.new_rfps,
                     !.updated_rfps = @ \o site_result.updated_rfps]
    ELSE [res EXCEPT !.sites_failed = @ + 1,
                     !.errors = @ \o site_result.errors]

\* the pages a run is served
RunInputs ==
    {[fetch |-> "ok", page |-> [title |-> "Olympic Village Surveillance System",
                                status |-> s]] : s \in {"Active", Raises}}
    \cup {[fetch |-> "timeout", page |-> NoneData]}

\* the last_test a stored configuration carries when the first run starts:
\* none, or a test 1, 24 or 25 hours ago
InitialLastTests == {NoTime, StartHour - 1, StartHour - 24, StartHour - 25}

\* the configurations sites.json holds for a site
InitialSiteConfigs(site_id) ==
    {SiteConfig(site_id, "testing", 8)}
    \cup {[SiteConfig(site_id, "active", 8) EXCEPT !.last_test = t] :
             t \in InitialLastTests}

\* the stores a run starts from
InitialStores ==
    {<<>>} \cup
    {<<r>> : r \in {x \in StorableRfps("la_county") :
                      /\ x.url = mock_urls("la_county")[1]
                      /\ x.extracted_fields.status = "Closed"}}

Init ==
    /\ site = <<>> /\ constructed = <<>> /\ ops = <<>>
    /\ store \in InitialStores
    /\ site_configs \in [SiteIds -> UNION {InitialSiteConfigs(s) : s \in SiteIds}]
    /\ \A s \in SiteIds : site_configs[s].id = s
    /\ request_count = [s \in SiteIds |-> 0]
    /\ result = SiteResult("la_county")
    /\ last = [kind |-> "none"]
    /\ scraped = [u \in AllUrls |-> NoneData]
    /\ visits = 0
    /\ pc = "idle"
    /\ sites_file \in {<<>>, <<"la_county", "la_city">>}
    /\ loaded = <<>> /\ todo = <<>> /\ rfp_urls = <<>>
    /\ force_full_scan = FALSE
    /\ results = RunResults
    /\ site_log = [s \in SiteIds |->
                     [attempts |-> 0, listing |-> "none", counted |-> "none"]]
    /\ now = StartHour
    /\ runs = 0
    /\ tests = [s \in SiteIds |-> <<>>]
    /\ saved_configs = site_configs
    /\ clock = 0 /\ last_request_time = <<>> /\ session_start = <<>>
    /\ last_fetch = <<>> /\ last_request_at = <<>> /\ window = <<>>
    /\ previous_rfps = <<>> /\ current_rfps = <<>> /\ changes = <<>>
    /\ AuxInit

\* scrape_all_sites up to its loop: the browser starts and sites.json is read;
\* either may raise, which the outer except records as a critical error
StartRun(force, startup_ok) ==
    /\ pc = "idle"
    /\ force_full_scan' = force
    /\ runs' = runs + 1
    /\ IF ~startup_ok
       THEN /\ results' = [RunResults EXCEPT
                              !.success = FALSE,
                              !.errors = <<[type |-> "critical", error |-> "raised"]>>]
            /\ pc' = "done"
            /\ UNCHANGED <<loaded, todo, site_configs>>
       ELSE /\ results' = RunResults
            /\ loaded' = sites_file
            /\ todo' = sites_file
            /\ site_configs' = saved_configs
            /\ pc' = IF sites_file = <<>> THEN "done" ELSE "site"
    /\ UNCHANGED <<siteVars, changeVars, auxVars, store, request_count, result, last, scraped, visits,
                   sites_file, rfp_urls, site_log, now, tests, saved_configs,
                   gateVars>>

\* scrape_site on an unhealthy site without force_full_scan: the early return,
\* and scrape_all_sites' bookkeeping of the result
SkipUnhealthySite ==
    /\ pc = "site" /\ todo # <<>>
    /\ LET s == Head(todo)
           site_result == [SiteResult(s) EXCEPT !.errors =
                              <<[error |-> "Site configuration is not healthy"]>>]
       IN /\ ShouldSkip(site_configs[s], force_full_scan)
          /\ result' = site_result
          /\ results' = Aggregate(results, site_result)
          /\ site_log' = [site_log EXCEPT ![s].attempts = @ + 1,
                                          ![s].counted = "failed"]
          /\ todo' = Tail(todo)
    /\ UNCHANGED <<siteVars, changeVars, auxVars, store, site_configs, request_count, last, scraped,
                   visits, pc, sites_file, loaded, rfp_urls, force_full_scan,
                   otherVars>>

\* scrape_site up to its loop: the field mappings are tested when no recent
\* test is on record (RFPScraper.test_site_configuration runs the binder's
\* test and saves the configuration to sites.json), and _discover_rfp_urls
\* fetches the listing page; a failed fetch is caught there and yields no URLs
BeginSite(outcome) ==
    /\ pc = "site" /\ todo # <<>>
    /\ LET s == Head(todo)
           should_test == _should_test_field_mappings(site_configs[s], now)
           tested == IF should_test
                     THEN binder_test_site_configuration(site_configs[s])
                     ELSE site_configs[s]
           fetched == fetch_page(outcome, request_count[s])
       IN /\ ~ShouldSkip(site_configs[s], force_full_scan)
          /\ result' = SiteResult(s)
          /\ site_configs' = [site_configs EXCEPT ![s] = tested]
          /\ saved_configs' = IF should_test
                              THEN [saved_configs EXCEPT ![s] = SavedAndLoaded(tested)]
                              ELSE saved_configs
          /\ tests' = IF should_test
                      THEN [tests EXCEPT ![s] = Append(@,
                              [at |-> now, last_test |-> site_configs[s].last_test])]
                      ELSE tests
          /\ request_count' = [request_count EXCEPT ![s] = fetched.request_count]
          /\ rfp_urls' = IF IsException(fetched) THEN <<>> ELSE mock_urls(s)
          /\ site_log' = [site_log EXCEPT
                            ![s].attempts = @ + 1,
                            ![s].listing = IF IsException(fetched)
                                           THEN "failed" ELSE "ok"]
          /\ pc' = "urls"
    /\ UNCHANGED <<siteVars, changeVars, auxVars, store, last, scraped, visits, sites_file, loaded,
                   todo, force_full_scan, results, now, runs, gateVars>>

\* one turn of scrape_site's loop over rfp_urls
ProcessRfpUrl(input) ==
    /\ pc = "urls" /\ rfp_urls # <<>>
    /\ LoopBody(Head(rfp_urls), input)
    /\ rfp_urls' = Tail(rfp_urls)
    /\ UNCHANGED <<siteVars, changeVars, auxVars, pc, sites_file, loaded, todo, force_full_scan,
                   results, site_log, otherVars>>

\* scrape_site after its loop: the statistics, then the call of
\* get_broken_field_mappings, whose AttributeError the except clause turns
\* into an error of the result; and scrape_all_sites' bookkeeping
FinishSite ==
    /\ pc = "urls" /\ rfp_urls = <<>>
    /\ LET s == Head(todo)
           site_result ==
              IF "get_broken_field_mappings" \in SiteConfigMethods
              THEN [result EXCEPT !.success = TRUE]
              ELSE [result EXCEPT !.errors = Append(@,
                      [error |-> "'SiteConfig' object has no attribute 'get_broken_field_mappings'"])]
       IN /\ site_configs' = [site_configs EXCEPT
                                ![s].last_scrape = "now",
                                ![s].rfp_count = Len(result.new_rfps)
                                                 + Len(result.updated_rfps)]
          /\ result' = site_result
          /\ results' = Aggregate(results, site_result)
          /\ site_log' = [site_log EXCEPT ![s].counted =
                            IF site_result.success THEN "processed" ELSE "failed"]
          /\ todo' = Tail(todo)
          /\ pc' = "site"
    /\ UNCHANGED <<siteVars, changeVars, auxVars, store, request_count, last, scraped, visits,
                   sites_file, loaded, rfp_urls, force_full_scan, otherVars>>

\* scrape_all_sites after its loop
FinishRun ==
    /\ pc = "site" /\ todo = <<>>
    /\ pc' = "done"
    /\ UNCHANGED <<siteVars, changeVars, auxVars, coreVars, sites_file, loaded, todo, rfp_urls,
                   force_full_scan, results, site_log, otherVars>>

Next ==
    \/ \E force \in BOOLEAN, startup_ok \in BOOLEAN : StartRun(force, startup_ok)
    \/ SkipUnhealthySite
    \/ \E outcome \in FetchOutcomes : BeginSite(outcome)
    \/ \E input \in RunInputs : ProcessRfpUrl(input)
    \/ FinishSite
    \/ FinishRun

Spec == Init /\ [][Next]_vars

----------------------------------------------------------------------------
(* Repeated runs of scrape_all_sites over one site, hours apart *)

\* the hours between the end of one run and the start of the next
RunGaps == {1, 24, 25}

\* sites.json lists one site; the store is empty
InitRuns ==
    /\ site = <<>> /\ constructed = <<>> /\ ops = <<>>
    /\ store = <<>>
    /\ site_configs \in [SiteIds -> UNION {InitialSiteConfigs(s) : s \in SiteIds}]
    /\ site_configs["la_county"].id = "la_county"
    /\ site_configs["la_city"] = SiteConfig("la_city", "active", 8)
    /\ request_count = [s \in SiteIds |-> 0]
    /\ result = SiteResult("la_county")
    /\ last = [kind |-> "none"]
    /\ scraped = [u \in AllUrls |-> NoneData]
    /\ visits = 0
    /\ pc = "idle"
    /\ sites_file = <<"la_county">>
    /\ loaded = <<>> /\ todo = <<>> /\ rfp_urls = <<>>
    /\ force_full_scan = FALSE
    /\ results = RunResults
    /\ site_log = [s \in SiteIds |->
                     [attempts |-> 0, listing |-> "none", counted |-> "none"]]
    /\ now = StartHour
    /\ runs = 0
    /\ tests = [s \in SiteIds |-> <<>>]
    /\ saved_configs = site_configs
    /\ clock = 0 /\ last_request_time = <<>> /\ session_start = <<>>
    /\ last_fetch = <<>> /\ last_request_at = <<>> /\ window = <<>>
    /\ previous_rfps = <<>> /\ current_rfps = <<>> /\ changes = <<>>
    /\ AuxInit

\* the scheduler calls scrape_all_sites again, d hours later
NextRun(d) ==
    /\ pc = "done"
    /\ runs < MaxRuns
    /\ pc' = "idle"
    /\ now' = now + d
    /\ site_log' = [s \in SiteIds |->
                      [attempts |-> 0, listing |-> "none", counted |-> "none"]]
    /\ UNCHANGED <<siteVars, changeVars, auxVars, coreVars, sites_file, loaded, todo, rfp_urls,
                   force_full_scan, results, runs, tests, saved_configs, gateVars>>

NextRuns ==
    \/ Next
    \/ \E d \in RunGaps : NextRun(d)

SpecRuns == InitRuns /\ [][NextRuns]_vars

\* C11: scrape_site re-runs test_site_configuration only when the site's last
\* test is more than 24 hours old or the site was never tested, and once a
\* scrape has tested a site, no scrape of that site within the following 24
\* hours tests it again.
C11_RetestOnlyAfter24Hours ==
    \A s \in SiteIds :
        /\ \A i \in 1..Len(tests[s]) :
              \/ tests[s][i].last_test = NoTime
              \/ tests[s][i].at - tests[s][i].last_test > 24
        /\ \A i \in 1..(Len(tests[s]) - 1) :
              tests[s][i + 1].at - tests[s][i].at > 24


----------------------------------------------------------------------------
(* Claims about a run of scrape_all_sites *)

\* C8: In a run that does not fail at startup, every site configuration that
\* was loaded is attempted exactly once, whatever fails in the other sites,
\* and sites_processed + sites_failed equals the number of configurations
\* loaded (while the loop runs: the number of sites visited so far).
C8_EverySiteAttemptedOnce ==
    /\ \A s \in SiteIds : site_log[s].attempts <= 1
    /\ pc \in {"site", "done"} =>
          results.sites_processed + results.sites_failed = Len(loaded) - Len(todo)
    /\ pc = "done" =>
          /\ results.sites_processed + results.sites_failed = Len(loaded)
          /\ \A s \in SiteIds :
                site_log[s].attempts = Cardinality({i \in 1..Len(loaded) : loaded[i] = s})
          /\ \A s \in SiteIds :
                site_log[s].attempts = 1 => site_log[s].counted # "none"

\* a finished run over two sites: the listing of the first could not be
\* fetched, and the second was attempted and counted all the same
C8_Witness ==
    /\ pc = "done" /\ Len(loaded) = 2
    /\ site_log["la_county"].listing = "failed"
    /\ site_log["la_city"].attempts = 1
    /\ \E i \in 1..Len(results.errors) : "rfp_url" \in DOMAIN results.errors[i]
    /\ results.sites_processed + results.sites_failed = 2

\* an entry of the run's error list that names the site: its "site" key, or
\* the URL of one of the site's pages
ErrorNames(e, s) ==
    \/ "site" \in DOMAIN e /\ e.site = s
    \/ "rfp_url" \in DOMAIN e /\ e.rfp_url[1] = s

\* C9: If fetching a site's listing page fails during a run, the site is
\* counted in sites_failed and an error naming it is in the run's error list;
\* it is not reported as processed successfully with no RFPs and no error.
C9_ListingFailureReported ==
    pc = "done" =>
        \A s \in SiteIds :
            site_log[s].listing = "failed" =>
                /\ site_log[s].counted = "failed"
                /\ \E i \in 1..Len(results.errors) : ErrorNames(results.errors[i], s)

\* C10: scrape_site on a site whose configuration is not healthy, without
\* force_full_scan, fetches nothing, creates and updates no RFP, and returns
\* an unsuccessful result carrying an error; with force_full_scan it goes on
\* to discovery.
C10_UnhealthySiteSkippedUnlessForced ==
    [][(pc = "site" /\ todo # <<>> /\ ~is_healthy(site_configs[Head(todo)])) =>
          IF ~force_full_scan
          THEN /\ request_count' = request_count
               /\ store' = store
               /\ result'.site_id = Head(todo)
               /\ ~result'.success
               /\ result'.errors # <<>>
               /\ result'.new_rfps = <<>> /\ result'.updated_rfps = <<>>
               /\ results'.new_rfps = results.new_rfps
               /\ results'.updated_rfps = results.updated_rfps
               /\ site_log'[Head(todo)].listing = "none"
               /\ pc' = "site"
          ELSE /\ pc' = "urls"
               /\ site_log'[Head(todo)].listing # "none"]_vars

\* a finished run without force_full_scan that skipped the unhealthy first
\* site and scraped the healthy second one
C10_Witness ==
    /\ pc = "done" /\ ~force_full_scan
    /\ ~is_healthy(site_configs["la_county"])
    /\ site_log["la_county"].attempts = 1
    /\ site_log["la_county"].listing = "none"
    /\ request_count["la_county"] = 0
    /\ site_log["la_city"].listing = "ok"
    /\ results.sites_failed = 2

----------------------------------------------------------------------------
(* backend/scrapers/base_scraper.py: the fetch gateway and its clock.       *)
(* Times are whole seconds; a duration of 0 stands for one that is          *)
(* positive and shorter than a second. An attempt to load the page takes    *)
(* no time at this resolution unless it runs into its timeout.              *)

\* BaseScraper.__init__
default_delay == 2
max_requests_per_minute == 20
max_retries == 3
retry_delay_base == 1

\* fetch_page's timeout parameter, in seconds
timeout == 30

\* time.time() when the gateway is constructed
StartClock == 100

\* the delay_between_requests a site's scraper_settings may carry
ConfiguredDelays == {0, 5}

\* what robots.txt says about a URL: it allows it, it disallows it, or it
\* cannot be read
RobotsAnswers == {"allowed", "disallowed", "unreadable"}

\* BaseScraper.check_robots_txt: can_fetch's answer; an exception while
\* reading robots.txt counts as allowed
check_robots_txt_AllowsAll(answer) == TRUE

check_robots_txt(answer) == answer # "disallowed"

\* the page loaded
PageLoaded == [kind |-> "ok", message |-> ""]

\* the exceptions an attempt to load the page can end in: what failed and the
\* text of the exception
AttemptFailures ==
    {[kind |-> "timeout", message |-> "Timeout 30000ms exceeded."],
     [kind |-> "connection", message |-> "net::ERR_CONNECTION_REFUSED"],
     [kind |-> "connection", message |-> "[Errno 101] Network is unreachable"],
     [kind |-> "other", message |-> "Page crashed"]}

NoFailure == [kind |-> "none", message |-> ""]

\* word in str(last_error).lower(), for the texts of AttemptFailures
InLower(word, message) ==
    \/ word = "timeout" /\ message = "Timeout 30000ms exceeded."
    \/ word = "network" /\ message = "[Errno 101] Network is unreachable"

Repeat(x, n) == [i \in 1..n |-> x]

Refused == [kind |-> "connection", message |-> "net::ERR_CONNECTION_REFUSED"]

\* what the attempts of one call end in, in order: the page, at once, after
\* one refused connection or after max_retries of them; or max_retries + 1
\* failures, the last of them of any kind
AttemptPatterns ==
    {Repeat(Refused, n) \o <<PageLoaded>> : n \in {0, 1, max_retries}}
    \cup {Repeat(Refused, max_retries) \o <<g>> : g \in AttemptFailures}
    \cup {Repeat([kind |-> "other", message |-> "Page crashed"], max_retries)
            \o <<[kind |-> "timeout", message |-> "Timeout 30000ms exceeded."]>>}

\* the inputs of one fetch_page call
FetchInputs ==
    {[robots |-> r, attempts |-> <<PageLoaded>>] :
        r \in {"disallowed", "unreadable"}}
    \cup {[robots |-> "allowed", attempts |-> p] : p \in AttemptPatterns}

\* BaseScraper.enforce_rate_limit at time t on a session (its request_count,
\* last_request_time and session_start): the time it returns at and the
\* session it leaves
enforce_rate_limit(count, last_time, start, custom_delay, t) ==
    LET delay == IF custom_delay # 0 THEN custom_delay ELSE default_delay
        time_since_last == t - last_time
        session_duration == t - start
        \* (request_count * 60) / session_duration > max_requests_per_minute
        exceeded == IF session_duration > 0
                    THEN count * 60 > max_requests_per_minute * session_duration
                    ELSE count > 0
        widened == IF exceeded
                   THEN Max(delay, 60 \div max_requests_per_minute)
                   ELSE delay
        sleep_time == IF time_since_last < widened
                      THEN widened - time_since_last ELSE 0
    IN [time |-> t + sleep_time,
        last_request_time |-> t + sleep_time,
        request_count |-> count + 1,
        delay |-> delay]

RECURSIVE Pow2(_)
Pow2(k) == IF k = 0 THEN 1 ELSE 2 * Pow2(k - 1)

\* the backoff before the attempt that follows failed attempt k
BackoffDelay_Constant(attempt) == retry_delay_base

BackoffDelay(attempt) == retry_delay_base * Pow2(attempt)

\* the exception fetch_page raises once the attempts are used up
RaisedAfterRetries(last_error) ==
    IF InLower("timeout", last_error.message)
    THEN "NetworkError: Request timeout"
    ELSE IF InLower("network", last_error.message)
    THEN "NetworkError: Network error"
    ELSE "ScrapingError: Fetch failed"

RECURSIVE Attempts(_, _, _, _)
\* fetch_page's loop `for attempt in range(max_retries + 1)` from `attempt`
\* on, entered at time t, and the raise that follows it
Attempts(attempt, t, outcomes, call) ==
    LET outcome == outcomes[attempt + 1]
        sent == [call EXCEPT !.request_times = Append(@, t), !.attempts = @ + 1]
        t_end == IF outcome.kind = "timeout" THEN t + timeout ELSE t
    IN IF outcome.kind = "ok"
       THEN [sent EXCEPT !.result = "content", !.time = t_end]
       ELSE LET failed == [sent EXCEPT !.last_error = outcome]
            IN IF attempt < max_retries
               THEN Attempts(attempt + 1, t_end + BackoffDelay(attempt), outcomes,
                             [failed EXCEPT !.waits = Append(@, BackoffDelay(attempt))])
               ELSE [failed EXCEPT !.result = RaisedAfterRetries(outcome),
                                   !.time = t_end]

\* the requests of a call that fall into the 60 seconds from time t on
InWindow(request_times, t) ==
    Cardinality({i \in 1..Len(request_times) :
                    request_times[i] >= t /\ request_times[i] < t + 60})

GateInit ==
    /\ site = <<>> /\ constructed = <<>> /\ ops = <<>>
    /\ store = <<>>
    /\ \E d \in ConfiguredDelays :
          site_configs = [s \in SiteIds |->
              [SiteConfig(s, "active", 8)
                  EXCEPT !.scraper_settings.delay_between_requests = d]]
    /\ request_count = [s \in SiteIds |-> 0]
    /\ result = SiteResult("la_county")
    /\ last = <<>> /\ scraped = <<>>
    /\ visits = 0
    /\ pc = "none" /\ sites_file = <<>> /\ loaded = <<>> /\ todo = <<>>
    /\ rfp_urls = <<>> /\ force_full_scan = FALSE /\ results = <<>>
    /\ site_log = <<>>
    /\ now = StartHour /\ runs = 0 /\ tests = <<>> /\ saved_configs = <<>>
    /\ clock = StartClock
    /\ last_request_time = [s \in SiteIds |-> 0]
    /\ session_start = [s \in SiteIds |-> NoTime]
    /\ last_fetch = [site |-> "none"]
    /\ last_request_at = [s \in SiteIds |-> NoTime]
    /\ window = [s \in SiteIds |-> [start |-> NoTime, count |-> 0]]
    /\ previous_rfps = <<>> /\ current_rfps = <<>> /\ changes = <<>>
    /\ AuxInit

\* BaseScraper.fetch_page(url, site_config) for a URL of site s
FetchPage(s, input) ==
    /\ visits < MaxFetches
    /\ clock <= StartClock + MaxIdle
    /\ visits' = visits + 1
    /\ LET start == IF session_start[s] = NoTime THEN clock ELSE session_start[s]
           call == [site |-> s, robots |-> input.robots,
                    outcomes |-> input.attempts,
                    delay |-> 0, attempts |-> 0, request_times |-> <<>>,
                    waits |-> <<>>, last_error |-> NoFailure,
                    result |-> "none", time |-> clock]
       IN /\ session_start' = [session_start EXCEPT ![s] = start]
          /\ IF ~check_robots_txt(input.robots)
             THEN /\ last_fetch' = [call EXCEPT !.result =
                                "ScrapingError: Access disallowed by robots.txt"]
                  /\ UNCHANGED <<clock, request_count, last_request_time,
                                 last_request_at, window>>
             ELSE LET custom_delay ==
                          site_configs[s].scraper_settings.delay_between_requests
                      limited == enforce_rate_limit(request_count[s],
                                     last_request_time[s], start, custom_delay, clock)
                      done == Attempts(0, limited.time, input.attempts,
                                       [call EXCEPT !.delay = limited.delay])
                      window_start == IF window[s].start = NoTime
                                      THEN done.request_times[1]
                                      ELSE window[s].start
                  IN /\ request_count' =
                           [request_count EXCEPT ![s] = limited.request_count]
                     /\ last_request_time' =
                           [last_request_time EXCEPT ![s] = limited.last_request_time]
                     /\ clock' = done.time
                     /\ last_fetch' = done
                     /\ last_request_at' = [last_request_at EXCEPT ![s] =
                           done.request_times[Len(done.request_times)]]
                     /\ window' = [window EXCEPT ![s] =
                           [start |-> window_start,
                            count |-> @.count
                                      + InWindow(done.request_times, window_start)]]
    /\ UNCHANGED <<siteVars, changeVars, auxVars, store, site_configs, result, last, scraped, runVars,
                   clockVars>>

\* the gateway's caller spends d seconds before its next call
Idle(d) ==
    /\ clock + d <= StartClock + MaxIdle
    /\ clock' = clock + d
    /\ UNCHANGED <<siteVars, changeVars, auxVars, coreVars, runVars, clockVars, last_request_time,
                   session_start, last_fetch, last_request_at, window>>

IdleTimes == {60}

\* the pages fetched are those of the site scrape_site is working on
GateNext ==
    \/ \E input \in FetchInputs : FetchPage(result.site_id, input)
    \/ \E d \in IdleTimes : Idle(d)

SpecGate == GateInit /\ [][GateNext]_vars

\* C12: for each site, any two successive page requests the gateway issues
\* to it, first attempts and retries alike, are at least the site's minimum
\* inter-request delay apart.
C12_SuccessiveRequestsKeepTheDelay ==
    [][(visits' = visits + 1 /\ last_fetch'.attempts > 0) =>
          LET s == last_fetch'.site
              times == last_fetch'.request_times
              delay == last_fetch'.delay
          IN /\ last_request_at[s] # NoTime =>
                    times[1] - last_request_at[s] >= delay
             /\ \A i \in 1..(Len(times) - 1) :
                    times[i + 1] - times[i] >= delay]_vars

\* C13: for each site, no 60-second window holds more page requests than
\* max_requests_per_minute, whatever the configured delay and the idle time
\* between the calls. `window` counts the requests of the 60 seconds that
\* begin with the site's first request.
C13_AtMostMaxRequestsPerMinute ==
    \A s \in SiteIds : window[s].count <= max_requests_per_minute

\* what a fetch_page call on a disallowed URL leaves alone: no page request
\* is attempted, no time is spent, and the site's request counter and
\* last-request time are those of before
RefusedBeforeAnyRequest ==
    /\ last_fetch'.attempts = 0
    /\ last_fetch'.request_times = <<>>
    /\ request_count' = request_count
    /\ last_request_time' = last_request_time
    /\ last_request_at' = last_request_at
    /\ clock' = clock

\* C14 as stated: fetch_page on a URL that robots.txt disallows fails with
\* RobotsDisallowed before any page request is attempted, and leaves the
\* site's request counter and last-request time unchanged.
C14_RobotsDisallowedRaised ==
    [][(visits' = visits + 1 /\ last_fetch'.robots = "disallowed") =>
          /\ last_fetch'.result = "RobotsDisallowed"
          /\ RefusedBeforeAnyRequest]_vars

\* C14, amended: fetch_page on a URL that robots.txt disallows fails with a
\* ScrapingError saying "Access disallowed by robots.txt" before any page
\* request is attempted, and leaves the site's request counter and
\* last-request time unchanged.
C14_DisallowedFailsBeforeAnyRequest ==
    [][(visits' = visits + 1 /\ last_fetch'.robots = "disallowed") =>
          /\ last_fetch'.result = "ScrapingError: Access disallowed by robots.txt"
          /\ RefusedBeforeAnyRequest]_vars

\* a disallowed URL refused after the site has been sent requests
C14_Witness ==
    /\ last_fetch.site = "la_county"
    /\ last_fetch.robots = "disallowed"
    /\ last_fetch.result = "ScrapingError: Access disallowed by robots.txt"
    /\ request_count["la_county"] = 2
    /\ last_request_time["la_county"] > StartClock
    /\ clock > last_request_at["la_county"]

\* C15: one fetch_page call makes at most max_retries + 1 attempts and
\* comes to an end; it returns the page at the first attempt that succeeds,
\* waits retry_delay_base * 2^k after failed attempt k (counted from 0)
\* before the next attempt, and raises only when every attempt has failed.
C15_BoundedRetriesWithBackoff ==
    (last_fetch.site # "none" /\ last_fetch.attempts > 0) =>
        LET n == last_fetch.attempts
            times == last_fetch.request_times
        IN /\ n <= max_retries + 1
           /\ Len(times) = n
           /\ Len(last_fetch.waits) = n - 1
           /\ \A k \in 0..(n - 2) :
                 /\ last_fetch.waits[k + 1] = retry_delay_base * 2^k
                 /\ times[k + 2] - times[k + 1] >= retry_delay_base * 2^k
           /\ \A i \in 1..(n - 1) : last_fetch.outcomes[i].kind # "ok"
           /\ last_fetch.result # "none"
           /\ IF last_fetch.outcomes[n].kind = "ok"
              THEN last_fetch.result = "content"
              ELSE /\ last_fetch.result # "content"
                   /\ n = max_retries + 1

\* a call that loaded the page at its last attempt, after waiting 1, 2 and 4
\* seconds
C15_Witness ==
    /\ last_fetch.site = "la_county"
    /\ last_fetch.attempts = max_retries + 1
    /\ last_fetch.waits = <<1, 2, 4>>
    /\ last_fetch.result = "content"
    /\ visits > 1

\* C16: a fetch_page call that has used up its retries raises NetworkError
\* if the last failure was a timeout or a connection failure, and
\* ScrapingError for every other kind of failure.
C16_NetworkErrorForTimeoutOrConnection ==
    (/\ last_fetch.site # "none"
     /\ last_fetch.attempts = max_retries + 1
     /\ last_fetch.result # "content") =>
        IF last_fetch.last_error.kind \in {"timeout", "connection"}
        THEN last_fetch.result \in {"NetworkError: Request timeout",
                                    "NetworkError: Network error"}
        ELSE last_fetch.result = "ScrapingError: Fetch failed"

----------------------------------------------------------------------------
(* Fields that resolve nowhere: C17 *)

\* C17: when extract_data meets a mapping for which neither the primary nor
\* any fallback selector yields a value, the field is left out of the result
\* and a validation error is recorded on the mapping (one more error, a
\* lower confidence), while every other mapping that yields a value is
\* extracted and the call returns.
C17_UnresolvedFieldRecordsValidationError ==
    [][(/\ visits' = visits + 1
        /\ last'.kind = "scrape"
        /\ last'.input.fetch = "ok") =>
          LET page == last'.input.page
              before == site_configs[result.site_id].field_mappings
              after == site_configs'[result.site_id].field_mappings
          IN /\ last'.data # NoneData
             /\ \A a \in Aliases :
                   /\ page[a] = Absent =>
                         /\ last'.data[a] = Absent
                         /\ Len(after[a].validation_errors)
                               = Len(before[a].validation_errors) + 1
                         /\ after[a].confidence_score
                               = Max(0, before[a].confidence_score - 2)
                   /\ page[a] \notin {Absent, Raises} =>
                         last'.data[a] = page[a]]_vars

----------------------------------------------------------------------------
(* backend/utils/change_detector.py, with RFP.is_high_priority and          *)
(* RFP.is_closing_soon of backend/models/rfp.py                             *)

\* the closing dates pages carry
ClosingDates == {"2024-01-03T02:00:00", "2024-01-06T10:00:00"}

\* datetime.fromisoformat on those, in hours since 2024-01-01T00:00:00
fromisoformat(date_string) ==
    IF date_string = "2024-01-03T02:00:00" THEN 50 ELSE 130

\* the status values pages carry
SnapshotStatuses == {"Active", "Withdrawn"}

\* str.lower() on the status values and category names of the model
lower(text) ==
    CASE text = "Active" -> "active"
      [] text = "Withdrawn" -> "withdrawn"
      [] text = "Olympics" -> "olympics"
      [] text = "High Priority" -> "high priority"
      [] text = "Surveillance" -> "surveillance"
      [] text = "Security" -> "security"
      [] text = "General" -> "general"
      [] OTHER -> text

\* the keywords of either list (RFP.is_high_priority's and
\* ChangeDetector.surveillance_keywords) that occur in text.lower(), for the
\* texts of the model: titles, status values, closing dates and departments
KeywordsIn(text) ==
    IF text = "Olympic Village Surveillance System" THEN {"surveillance"}
    ELSE IF text = "Police Intelligence Unit" THEN {"intelligence"}
    ELSE {}

\* RFP.is_high_priority
is_high_priority(rfp) ==
    LET high_priority_categories ==
            {"surveillance", "security", "biometric", "facial_recognition",
             "data_collection", "intelligence", "monitoring"}
        high_priority_keywords ==
            {"facial recognition", "biometric", "surveillance", "monitoring",
             "intelligence", "predictive policing", "social media monitoring",
             "cell site simulator", "stingray", "IMSI catcher", "mass surveillance"}
    IN \/ \E i \in 1..Len(rfp.categories) :
              lower(rfp.categories[i]) \in high_priority_categories
       \/ KeywordsIn(rfp.title) \cap high_priority_keywords # {}

\* RFP.is_closing_soon(self, days_threshold=7) called with the keyword
\* arguments kwargs at time t: a keyword the signature does not know is a
\* TypeError; timedelta.days is the floor of the difference in days
is_closing_soon(rfp, kwargs, t) ==
    IF ~(DOMAIN kwargs \subseteq {"days_threshold"})
    THEN [exception |->
            "TypeError: is_closing_soon() got an unexpected keyword argument"]
    ELSE LET days_threshold == IF "days_threshold" \in DOMAIN kwargs
                               THEN kwargs["days_threshold"] ELSE 7
             closing_date_str == rfp.extracted_fields["closing_date"]
         IN IF closing_date_str = Absent
            THEN [value |-> FALSE]
            ELSE LET days_until_closing ==
                         (fromisoformat(closing_date_str) - t) \div 24
                 IN [value |-> 0 <= days_until_closing
                               /\ days_until_closing <= days_threshold]

\* ChangeDetector._contains_surveillance_keywords
_contains_surveillance_keywords(text) ==
    LET surveillance_keywords ==
            {"surveillance", "monitoring", "facial recognition", "biometric",
             "security camera", "tracking", "intelligence", "analytics",
             "predictive policing", "crowd control", "social media monitoring",
             "license plate reader", "cell site simulator", "stingray"}
    IN KeywordsIn(text) \cap surveillance_keywords # {}

\* ChangeDetector._assess_rfp_severity
_assess_rfp_severity(rfp, t) ==
    IF is_high_priority(rfp) THEN [value |-> "HIGH"]
    ELSE IF _contains_surveillance_keywords(rfp.title) THEN [value |-> "HIGH"]
    ELSE LET soon == is_closing_soon(rfp, [days |-> 7], t)
         IN IF IsException(soon) THEN soon
            ELSE [value |-> IF soon.value THEN "MEDIUM" ELSE "LOW"]

\* ChangeRecord(...)
ChangeRecord(rfp, change_type, severity, field_name, action_required) ==
    [rfp_id |-> rfp.id, change_type |-> change_type, severity |-> severity,
     field_name |-> field_name, action_required |-> action_required]

RECURSIVE Chain(_)
\* the results of statements run one after the other: the first exception
\* raised, or else the records collected, in order
Chain(steps) ==
    IF steps = <<>> THEN [value |-> <<>>]
    ELSE IF IsException(Head(steps)) THEN Head(steps)
    ELSE LET rest == Chain(Tail(steps))
         IN IF IsException(rest) THEN rest
            ELSE [value |-> Head(steps).value \o rest.value]

\* the keys of the extracted_fields dictionaries, in the order of the loops
SnapshotFields == <<"title", "status", "closing_date", "department">>

\* ChangeDetector._compare_extracted_fields
_compare_extracted_fields(current_fields, previous_fields, rfp) ==
    LET critical_fields == {"status", "closing_date", "contract_value", "issuer"}
        change(field_name) ==
            LET current_value == Get(current_fields, field_name, None)
                previous_value == Get(previous_fields, field_name, None)
                by_field == IF field_name \in critical_fields THEN "HIGH"
                            ELSE IF field_name \in {"description", "title"}
                            THEN "MEDIUM" ELSE "LOW"
                severity == IF _contains_surveillance_keywords(current_value)
                            THEN "HIGH" ELSE by_field
            IN IF current_value # previous_value
               THEN <<ChangeRecord(rfp, "CONTENT_UPDATE", severity, field_name,
                                   severity = "HIGH")>>
               ELSE <<>>
    IN Chain([i \in 1..Len(SnapshotFields) |->
                 [value |-> change(SnapshotFields[i])]]).value

\* ChangeDetector._check_critical_field_changes
_check_critical_field_changes(current, previous, t) ==
    LET current_status == Get(current.extracted_fields, "status", "")
        previous_status == Get(previous.extracted_fields, "status", "")
        status_change ==
            IF current_status # previous_status
            THEN [value |->
                    <<ChangeRecord(current, "STATUS_CHANGE",
                        IF lower(current_status)
                              \in {"cancelled", "withdrawn", "awarded"}
                        THEN "CRITICAL" ELSE "HIGH",
                        "status", TRUE)>>]
            ELSE [value |-> <<>>]
        current_closing == Get(current.extracted_fields, "closing_date", None)
        previous_closing == Get(previous.extracted_fields, "closing_date", None)
        soon == IF current_closing # None
                THEN is_closing_soon(current, [days |-> 2], t)
                ELSE [value |-> FALSE]
        closing_change ==
            IF current_closing # previous_closing
            THEN IF IsException(soon) THEN soon
                 ELSE [value |->
                         <<ChangeRecord(current, "CLOSING_DATE_CHANGE",
                             IF soon.value THEN "CRITICAL" ELSE "HIGH",
                             "closing_date", TRUE)>>]
            ELSE [value |-> <<>>]
    IN Chain(<<status_change, closing_change>>)

\* ChangeDetector._compare_rfps
_compare_rfps(current, previous, t) ==
    LET field_changes ==
            IF current.content_hash # previous.content_hash
            THEN _compare_extracted_fields(current.extracted_fields,
                                           previous.extracted_fields, current)
            ELSE <<>>
        category_change ==
            IF Range(current.categories) # Range(previous.categories)
            THEN <<ChangeRecord(current, "CATEGORY_CHANGE", "MEDIUM", "categories",
                      \E i \in 1..Len(current.categories) :
                          current.categories[i] \in {"surveillance", "security"})>>
            ELSE <<>>
    IN Chain(<<[value |-> field_changes],
               _check_critical_field_changes(current, previous, t),
               [value |-> category_change]>>)

\* ChangeDetector._detect_urgent_deadlines
_detect_urgent_deadlines(rfps, t) ==
    Chain([i \in 1..Len(rfps) |->
        LET rfp == rfps[i]
            soon == is_closing_soon(rfp, [days |-> 2], t)
        IN IF IsException(soon) THEN soon
           ELSE IF soon.value
           THEN [value |->
                   <<ChangeRecord(rfp, "URGENT_DEADLINE",
                        IF is_high_priority(rfp) THEN "CRITICAL" ELSE "HIGH",
                        "closing_date", TRUE)>>]
           ELSE [value |-> <<>>]])

\* {rfp.id: rfp for rfp in rfps}: the keys, and the value of a key
Ids(rfps) == {rfps[i].id : i \in 1..Len(rfps)}
ById(rfps, rfp_id) ==
    rfps[CHOOSE i \in 1..Len(rfps) :
            /\ rfps[i].id = rfp_id
            /\ \A j \in (i + 1)..Len(rfps) : rfps[j].id # rfp_id]

\* the RFPs of a list whose ids are in a set, each id once, in list order
Select(rfps, ids) ==
    SelectSeq([i \in 1..Len(rfps) |-> ById(rfps, rfps[i].id)],
              LAMBDA rfp : rfp.id \in ids)

\* ChangeDetector.detect_changes(current_rfps, previous_rfps) at time t
detect_changes(current, previous, t) ==
    LET new_rfps == Select(current, Ids(current) \ Ids(previous))
        removed_rfps == Select(previous, Ids(previous) \ Ids(current))
        common_rfps == Select(current, Ids(current) \cap Ids(previous))
        new_changes ==
            [i \in 1..Len(new_rfps) |->
                LET severity == _assess_rfp_severity(new_rfps[i], t)
                IN IF IsException(severity) THEN severity
                   ELSE [value |->
                           <<ChangeRecord(new_rfps[i], "NEW_RFP", severity.value,
                                "rfp_status",
                                severity.value \in {"HIGH", "CRITICAL"})>>]]
        removed_changes ==
            [i \in 1..Len(removed_rfps) |->
                [value |->
                    <<ChangeRecord(removed_rfps[i], "REMOVED_RFP", "MEDIUM",
                         "rfp_status", is_high_priority(removed_rfps[i]))>>]]
        common_changes ==
            [i \in 1..Len(common_rfps) |->
                _compare_rfps(common_rfps[i],
                              ById(previous, common_rfps[i].id), t)]
    IN Chain(new_changes \o removed_changes \o common_changes
             \o <<_detect_urgent_deadlines(current, t)>>)

----------------------------------------------------------------------------
(* backend/main.py: the scrape command with --detect-changes, run again and *)
(* again over a store that scraping and other writers change                *)

\* the pages whose RFPs the store may hold, and their titles
SnapshotUrls == SubSeq(mock_urls("la_county"), 1, 2)

TitleAt(url) ==
    IF url = SnapshotUrls[1] THEN "Olympic Village Surveillance System"
    ELSE "Office furniture procurement"

\* the RFPs the store may hold for a page, built as _create_rfp builds them,
\* with the posted_date the dataclass requires
SnapshotRfps(url) ==
    {RFP([id |-> _generate_rfp_id(url, d), title |-> d.title, url |-> url,
          source_site |-> "la_county", posted_date |-> "2024-12-16",
          extracted_fields |-> d, detected_at |-> "now",
          content_hash |-> _generate_content_hash(d),
          categories |-> _categorize_rfp(d)]) :
        d \in {[title |-> TitleAt(url), status |-> st, closing_date |-> c,
                 department |-> Absent] :
                  st \in SnapshotStatuses, c \in ClosingDates \cup {Absent}}}

\* what rfps.json may hold
Corpora ==
    {<<>>}
    \cup {<<rfp>> : rfp \in SnapshotRfps(SnapshotUrls[1]) \cup SnapshotRfps(SnapshotUrls[2])}
    \cup {<<a, b>> : a \in SnapshotRfps(SnapshotUrls[1]),
                     b \in SnapshotRfps(SnapshotUrls[2])}

\* hours from one run of the command to the next
CommandGaps == {1, 24}

ChangesInit ==
    /\ site = <<>> /\ constructed = <<>> /\ ops = <<>>
    /\ store = <<>> /\ site_configs = <<>> /\ request_count = <<>>
    /\ result = <<>> /\ last = <<>> /\ scraped = <<>> /\ visits = 0
    /\ pc = "none" /\ sites_file = <<>> /\ loaded = <<>> /\ todo = <<>>
    /\ rfp_urls = <<>> /\ force_full_scan = FALSE /\ results = <<>>
    /\ site_log = <<>>
    /\ now = StartHour /\ runs = 0 /\ tests = <<>> /\ saved_configs = <<>>
    /\ clock = 0 /\ last_request_time = <<>> /\ session_start = <<>>
    /\ last_fetch = <<>> /\ last_request_at = <<>> /\ window = <<>>
    /\ previous_rfps = <<>>
    /\ current_rfps = <<>>
    /\ changes = [at |-> NoTime, returned |-> [value |-> <<>>]]
    /\ AuxInit

\* one run of `scrape --detect-changes`, d hours after the run before: the
\* store is loaded, the sites are scraped, the store, now `current`, is
\* loaded again and detect_changes compares the two
ScrapeCommand(current, d) ==
    /\ runs < MaxRuns
    /\ runs' = runs + 1
    /\ now' = now + d
    /\ previous_rfps' = current_rfps
    /\ current_rfps' = current
    /\ changes' = [at |-> now',
                   returned |-> detect_changes(current, current_rfps, now')]
    /\ UNCHANGED <<siteVars, coreVars, runVars, tests, saved_configs, gateVars,
                   auxVars>>

ChangesNext == \E current \in Corpora, d \in CommandGaps : ScrapeCommand(current, d)

SpecChanges == ChangesInit /\ [][ChangesNext]_vars

\* the change records the last detect_changes call returned
Emitted == IF IsException(changes.returned) THEN <<>> ELSE changes.returned.value

\* those of them that are about one RFP and of one of the given types
EmittedFor(rfp_id, change_types) ==
    SelectSeq(Emitted,
              LAMBDA c : c.rfp_id = rfp_id /\ c.change_type \in change_types)

FieldChangeTypes ==
    {"STATUS_CHANGE", "CLOSING_DATE_CHANGE", "CONTENT_UPDATE", "VALUE_CHANGE",
     "CATEGORY_CHANGE"}

\* the RFP is in both snapshots and differs in its status field alone
OnlyStatusDiffers(rfp) ==
    /\ rfp.id \in Ids(previous_rfps)
    /\ LET previous == ById(previous_rfps, rfp.id)
       IN /\ rfp.extracted_fields["status"] # previous.extracted_fields["status"]
          /\ rfp.extracted_fields["title"] = previous.extracted_fields["title"]
          /\ rfp.extracted_fields["closing_date"]
                = previous.extracted_fields["closing_date"]
          /\ rfp.title = previous.title
          /\ rfp.categories = previous.categories

\* C18: for an RFP present in both snapshots whose only difference is its
\* status field, detect_changes emits exactly one record about a change of
\* the RFP: a STATUS_CHANGE with action_required true, of severity CRITICAL
\* when the new status is cancelled, withdrawn or awarded in any letter case.
C18_StatusOnlyDiffGivesOneStatusChange ==
    runs > 0 =>
        \A i \in 1..Len(current_rfps) :
            OnlyStatusDiffers(current_rfps[i]) =>
                LET records == EmittedFor(current_rfps[i].id,
                                          FieldChangeTypes \cup {"NEW_RFP", "REMOVED_RFP"})
                IN /\ Len(records) = 1
                   /\ records[1].change_type = "STATUS_CHANGE"
                   /\ records[1].action_required
                   /\ lower(current_rfps[i].extracted_fields["status"])
                         \in {"cancelled", "withdrawn", "awarded"}
                      => records[1].severity = "CRITICAL"

\* C19: every detect_changes pass emits exactly one URGENT_DEADLINE record
\* for each current RFP whose closing date lies within the next 48 hours and
\* none for an RFP that closes later, is closed already or has no closing
\* date; its severity is CRITICAL for a high-priority RFP and HIGH otherwise;
\* identical snapshots make no difference.
C19_UrgentDeadlineWithin48Hours ==
    runs > 0 =>
        \A i \in 1..Len(current_rfps) :
            LET rfp == current_rfps[i]
                closing == rfp.extracted_fields["closing_date"]
                within == /\ closing # Absent
                          /\ fromisoformat(closing) - changes.at >= 0
                          /\ fromisoformat(closing) - changes.at <= 48
                records == EmittedFor(rfp.id, {"URGENT_DEADLINE"})
            IN IF within
               THEN /\ Len(records) = 1
                    /\ records[1].severity =
                          IF is_high_priority(rfp) THEN "CRITICAL" ELSE "HIGH"
               ELSE records = <<>>

\* C20: for every RFP id in the current corpus and not in the previous one
\* detect_changes emits exactly one NEW_RFP record and no REMOVED_RFP or
\* field-level record; an id in both corpora gets neither a NEW_RFP nor a
\* REMOVED_RFP record.
C20_OneNewRfpRecordPerNewId ==
    runs > 0 =>
        /\ \A rfp_id \in Ids(current_rfps) \ Ids(previous_rfps) :
              /\ Len(EmittedFor(rfp_id, {"NEW_RFP"})) = 1
              /\ EmittedFor(rfp_id, FieldChangeTypes \cup {"REMOVED_RFP"}) = <<>>
        /\ \A rfp_id \in Ids(current_rfps) \cap Ids(previous_rfps) :
              EmittedFor(rfp_id, {"NEW_RFP", "REMOVED_RFP"}) = <<>>

----------------------------------------------------------------------------
(* ChangeDetector._compare_rfps on two versions of one RFP: C21, C22 *)

\* the departments pages carry
Departments == {"Public Works", "Police Intelligence Unit"}

\* the versions of the RFP of one page: what the page's fields may be, with
\* the categories RFPScraper._categorize_rfp assigns to them
RfpVersions ==
    {RFP([id |-> _generate_rfp_id(SnapshotUrls[1],
                                  [title |-> TitleAt(SnapshotUrls[1])]),
          title |-> d.title, url |-> SnapshotUrls[1],
          source_site |-> "la_county", posted_date |-> "2024-12-16",
          extracted_fields |-> d, detected_at |-> "now",
          content_hash |-> _generate_content_hash(d),
          categories |-> _categorize_rfp(d)]) :
        d \in [title : Titles, status : SnapshotStatuses,
               closing_date : ClosingDates \cup {Absent},
               department : Departments \cup {Absent}]}

CompareInit ==
    /\ site = <<>> /\ constructed = <<>> /\ ops = <<>>
    /\ store = <<>> /\ site_configs = <<>> /\ request_count = <<>>
    /\ result = <<>> /\ last = <<>> /\ scraped = <<>> /\ visits = 0
    /\ pc = "none" /\ sites_file = <<>> /\ loaded = <<>> /\ todo = <<>>
    /\ rfp_urls = <<>> /\ force_full_scan = FALSE /\ results = <<>>
    /\ site_log = <<>>
    /\ now = StartHour /\ runs = 0 /\ tests = <<>> /\ saved_configs = <<>>
    /\ clock = 0 /\ last_request_time = <<>> /\ session_start = <<>>
    /\ last_fetch = <<>> /\ last_request_at = <<>> /\ window = <<>>
    /\ \E previous \in RfpVersions : previous_rfps = <<previous>>
    /\ \E current \in RfpVersions : current_rfps = <<current>>
    /\ changes = [at |-> NoTime, returned |-> [value |-> <<>>]]
    /\ AuxInit

\* _compare_rfps(current, previous), as detect_changes calls it for an id of
\* both snapshots
CompareRfps ==
    /\ runs = 0
    /\ runs' = 1
    /\ changes' = [at |-> now,
                   returned |-> _compare_rfps(current_rfps[1], previous_rfps[1], now)]
    /\ UNCHANGED <<siteVars, coreVars, runVars, now, tests, saved_configs, gateVars,
                   previous_rfps, current_rfps, auxVars>>

SpecCompare == CompareInit /\ [][CompareRfps]_vars

\* the severity a changed field's record is to carry
FieldSeverity(field_name, new_value) ==
    IF _contains_surveillance_keywords(new_value) THEN "HIGH"
    ELSE IF field_name \in {"status", "closing_date", "contract_value", "issuer"}
    THEN "HIGH"
    ELSE IF field_name \in {"description", "title"} THEN "MEDIUM"
    ELSE "LOW"

\* C21: for an RFP of both snapshots, each extracted field whose value
\* differs yields a change record for that field, of severity HIGH for
\* status, closing_date, contract_value and issuer, MEDIUM for description
\* and title, LOW for any other field, and HIGH whenever the new value
\* contains a surveillance keyword.
C21_ChangedFieldsGetSeverityByField ==
    runs = 1 =>
        \A i \in 1..Len(SnapshotFields) :
            LET field_name == SnapshotFields[i]
                new_value == Get(current_rfps[1].extracted_fields, field_name, None)
                old_value == Get(previous_rfps[1].extracted_fields, field_name, None)
            IN new_value # old_value =>
                  \E k \in 1..Len(Emitted) :
                      /\ Emitted[k].change_type = "CONTENT_UPDATE"
                      /\ Emitted[k].field_name = field_name
                      /\ Emitted[k].severity = FieldSeverity(field_name, new_value)

\* C22: when the category sets of the previous and the current version
\* differ, one CATEGORY_CHANGE record is emitted, and its action_required is
\* true whenever the current categories, as _categorize_rfp assigns them,
\* include the surveillance or the security category.
C22_CategoryChangeFlagsSurveillance ==
    runs = 1 =>
        LET current == current_rfps[1]
            previous == previous_rfps[1]
            records == SelectSeq(Emitted, LAMBDA c : c.change_type = "CATEGORY_CHANGE")
        IN Range(current.categories) # Range(previous.categories) =>
              /\ Len(records) = 1
              /\ Range(current.categories) \cap {"Surveillance", "Security"} # {}
                    => records[1].action_required

----------------------------------------------------------------------------
(* utils/change_detector.py: the change history kept in changes.json *)

\* the number of save_changes calls and waits a behaviour makes
MaxHistorySteps == 4

\* timedelta(days=30), in hours
RetentionHours == 720

\* ChangeRecord.to_dict, for the fields that tell records apart: the values
\* are written as strings (None stays None), the detection time as ISO text.
\* A value is a string or a list of categories, written "list:..." here.
to_dict(change) ==
    LET str(value) == IF value = "list:Surveillance" THEN "['Surveillance']"
                      ELSE IF value = "list:General" THEN "['General']"
                      ELSE value
    IN [change_id |-> change.change_id,
        old_value |-> IF change.old_value = Absent THEN Absent
                      ELSE str(change.old_value),
        new_value |-> IF change.new_value = Absent THEN Absent
                      ELSE str(change.new_value),
        detected_at |-> <<"iso", change.detected_at>>]

\* ChangeRecord.from_dict: the values stay the strings the file holds
from_dict(data) ==
    [change_id |-> data.change_id, old_value |-> data.old_value,
     new_value |-> data.new_value, detected_at |-> data.detected_at[2]]

\* ChangeDetector.load_changes, on the file save_changes wrote
load_changes(file) == [i \in 1..Len(file) |-> from_dict(file[i])]

\* the change is no older than the cutoff of save_changes at hour t
IsRecent(change, t) == change.detected_at >= t - RetentionHours

\* save_changes keeps every record
save_changes_KeepsAll(file, new_changes, t) ==
    IF new_changes = <<>> THEN file
    ELSE LET all_changes == load_changes(file) \o new_changes
         IN [i \in 1..Len(all_changes) |-> to_dict(all_changes[i])]

\* ChangeDetector.save_changes at hour t: the file it leaves
save_changes(file, new_changes, t) ==
    IF new_changes = <<>> THEN file
    ELSE LET all_changes == load_changes(file) \o new_changes
             keep(change) == IsRecent(change, t)
             recent_changes == SelectSeq(all_changes, keep)
         IN [i \in 1..Len(recent_changes) |-> to_dict(recent_changes[i])]

\* the records of the k-th call, made at hour t
Supplied(ages, k, t) ==
    [i \in 1..Len(ages) |->
        [change_id |-> <<"cat", k, i>>,
         old_value |-> IF i = 1 THEN "list:General" ELSE Absent,
         new_value |-> "list:Surveillance",
         detected_at |-> t - ages[i]]]

NoCall == [at |-> NoTime]

HistoryInit ==
    /\ site = <<>> /\ constructed = <<>> /\ ops = <<>>
    /\ store = <<>> /\ site_configs = <<>> /\ request_count = <<>>
    /\ result = <<>> /\ last = <<>> /\ scraped = <<>> /\ visits = 0
    /\ pc = "done" /\ sites_file = <<>> /\ loaded = <<>> /\ todo = <<>>
    /\ rfp_urls = <<>> /\ force_full_scan = FALSE /\ results = <<>>
    /\ site_log = <<>>
    /\ now = StartHour + 2 * RetentionHours /\ runs = 0 /\ tests = <<>>
    /\ saved_configs = <<>>
    /\ clock = 0 /\ last_request_time = <<>> /\ session_start = 0
    /\ last_fetch = <<>> /\ last_request_at = <<>> /\ window = <<>>
    /\ previous_rfps = <<>> /\ current_rfps = <<>> /\ changes = <<>>
    /\ changes_file = <<>> /\ invocation = NoCall
    /\ disk = <<>> /\ field_mappings = <<>> /\ robots_cache = <<>>

\* change_detector.save_changes(changes)
SaveChanges(ages) ==
    /\ runs < MaxHistorySteps
    /\ runs' = runs + 1
    /\ LET new_changes == Supplied(ages, runs + 1, now)
       IN /\ changes_file' = save_changes(changes_file, new_changes, now)
          /\ invocation' = [at |-> now, changes |-> new_changes,
                            before |-> changes_file]
    /\ UNCHANGED <<siteVars, coreVars, runVars, now, tests, saved_configs, gateVars,
                   changeVars, disk, field_mappings, robots_cache>>

\* time passes between two runs of the command
HistoryWait(d) ==
    /\ runs < MaxHistorySteps
    /\ runs' = runs + 1
    /\ now' = now + d
    /\ UNCHANGED <<siteVars, coreVars, runVars, tests, saved_configs, gateVars,
                   changeVars, auxVars>>

\* the lists handed to save_changes are given by the ages, in hours, of their
\* records; a day or thirty days pass between two calls
SpecHistory ==
    HistoryInit /\
    [][\/ \E ages \in {<<>>, <<0>>, <<744>>, <<0, 744>>, <<720, 0>>} : SaveChanges(ages)
       \/ \E d \in {24, 720} : HistoryWait(d)]_vars

\* the file holds the records of the given list that are recent at hour t, as
\* they are written, and no other
HoldsTheRecentOf(file, candidates, t) ==
    /\ \A i \in 1..Len(file) : IsRecent(from_dict(file[i]), t)
    /\ Range(file) = {to_dict(c) : c \in {x \in Range(candidates) : IsRecent(x, t)}}

----------------------------------------------------------------------------
(* models/serialization.py: DataManager.save_rfps and save_site_configs *)

\* the number of save calls a behaviour starts
MaxSaves == 2

\* json.dump writes the document piece by piece: the number of pieces
Chunks == 2

\* a file that does not exist, and a file holding the first n pieces of the
\* document of data set v
NoFile == [exists |-> FALSE, content |-> <<>>]
Written(v, n) == [exists |-> TRUE, content |-> [i \in 1..n |-> v]]

\* self.rfps_file and self.sites_file, by the save method that writes them
TargetFile(name) == IF name = "save_rfps" THEN "rfps.json" ELSE "sites.json"

\* the file is written in place
with_suffix_InPlace(target) == target

\* target.with_suffix('.tmp')
with_suffix(target) == IF target = "rfps.json" THEN "rfps.tmp" ELSE "sites.tmp"

\* the steps of a save call at which it can fail or be interrupted
SaveSteps == {"backup", "convert", "open", "write", "rename"}

SaveInit ==
    /\ site = <<>> /\ constructed = <<>> /\ ops = <<>>
    /\ store = <<>> /\ site_configs = <<>> /\ request_count = <<>>
    /\ result = <<>> /\ last = <<>> /\ scraped = <<>> /\ visits = 0
    /\ pc = "done" /\ sites_file = <<>> /\ loaded = <<>> /\ todo = <<>>
    /\ rfp_urls = <<>> /\ force_full_scan = FALSE /\ results = <<>>
    /\ site_log = <<>>
    /\ now = 0 /\ runs = 0 /\ tests = <<>> /\ saved_configs = <<>>
    /\ clock = 0 /\ last_request_time = <<>> /\ session_start = 0
    /\ last_fetch = <<>> /\ last_request_at = <<>> /\ window = <<>>
    /\ previous_rfps = <<>> /\ current_rfps = <<>> /\ changes = <<>>
    /\ changes_file = <<>> /\ field_mappings = <<>> /\ robots_cache = <<>>
    /\ \E rfps_json \in {NoFile, Written(0, Chunks)} :
       \E sites_json \in {NoFile, Written(0, Chunks)} :
          disk = [files |-> [n \in {"rfps.json", "rfps.tmp", "sites.json", "sites.tmp"} |->
                                IF n = "rfps.json" THEN rfps_json
                                ELSE IF n = "sites.json" THEN sites_json
                                ELSE NoFile],
                  history |-> {}]
    /\ invocation = [name |-> "none", pc |-> "none"]

\* a call of save_rfps or save_site_configs begins: the data set it is
\* handed is numbered by the call
BeginSave(name, backup) ==
    /\ invocation.pc \notin SaveSteps
    /\ runs < MaxSaves
    /\ runs' = runs + 1
    /\ invocation' = [name |-> name, data |-> runs + 1, backup |-> backup,
                      pc |-> IF backup /\ disk.files[TargetFile(name)].exists
                             THEN "backup" ELSE "convert",
                      previous |-> disk.files[TargetFile(name)],
                      temp_before |-> disk.files[with_suffix(TargetFile(name))],
                      failed_at |-> "none"]
    /\ UNCHANGED <<siteVars, coreVars, runVars, now, tests, saved_configs, gateVars,
                   changeVars, changes_file, disk, field_mappings, robots_cache>>

\* the next step of the call: backup_data_files, the conversion of the
\* objects, the opening of the temporary file, one piece written by
\* json.dump, the rename
SaveStep ==
    /\ invocation.pc \in SaveSteps
    /\ LET target == TargetFile(invocation.name)
           temp_file == with_suffix(target)
           at == invocation.pc
       IN /\ disk' =
                IF at = "backup" THEN
                    [disk EXCEPT !.history = @ \cup
                        {<<n, disk.files[n]>> : n \in {f \in {"rfps.json", "sites.json"} :
                                                        disk.files[f].exists}}]
                ELSE IF at = "open" THEN
                    [disk EXCEPT !.files[temp_file] = Written(invocation.data, 0)]
                ELSE IF at = "write" THEN
                    [disk EXCEPT !.files[temp_file] =
                        Written(invocation.data, Len(@.content) + 1)]
                ELSE IF at = "rename" THEN
                    [disk EXCEPT !.files =
                        [n \in DOMAIN @ |-> IF n = target THEN @[temp_file]
                                            ELSE IF n = temp_file THEN NoFile
                                            ELSE @[n]]]
                ELSE disk
          /\ invocation' = [invocation EXCEPT !.pc =
                CASE at = "backup" -> "convert"
                  [] at = "convert" -> "open"
                  [] at = "open" -> "write"
                  [] at = "write" -> IF Len(disk.files[temp_file].content) + 1 = Chunks
                                     THEN "rename" ELSE "write"
                  [] at = "rename" -> "done"]
    /\ UNCHANGED <<siteVars, coreVars, runVars, clockVars, gateVars, changeVars,
                   changes_file, field_mappings, robots_cache>>

\* the step raises an exception: inside the try block the handler removes
\* the temporary file if it exists and re-raises; backup_data_files is
\* called before the try block
SaveFails ==
    /\ invocation.pc \in SaveSteps
    /\ LET temp_file == with_suffix(TargetFile(invocation.name))
       IN disk' = IF invocation.pc = "backup" THEN disk
                  ELSE [disk EXCEPT !.files[temp_file] = NoFile]
    /\ invocation' = [invocation EXCEPT !.pc = "raised", !.failed_at = invocation.pc]
    /\ UNCHANGED <<siteVars, coreVars, runVars, clockVars, gateVars, changeVars,
                   changes_file, field_mappings, robots_cache>>

\* the process is interrupted or killed at the step: no handler runs
SaveInterrupted ==
    /\ invocation.pc \in SaveSteps
    /\ invocation' = [invocation EXCEPT !.pc = "interrupted",
                                        !.failed_at = invocation.pc]
    /\ UNCHANGED <<siteVars, coreVars, runVars, clockVars, gateVars, changeVars,
                   changes_file, disk, field_mappings, robots_cache>>

SpecSave ==
    SaveInit /\ [][\/ \E name \in {"save_rfps", "save_site_configs"} :
                      \E backup \in BOOLEAN : BeginSave(name, backup)
                   \/ SaveStep
                   \/ SaveFails
                   \/ SaveInterrupted]_vars

\* a reader of the file the call writes sees the complete previous contents
\* (or no file, when there was none) or the complete new contents
ReaderSeesOldOrNew ==
    invocation.pc # "none" =>
        LET seen == disk.files[TargetFile(invocation.name)]
        IN /\ seen \in {invocation.previous, Written(invocation.data, Chunks)}
           /\ seen.exists => Len(seen.content) = Chunks
           /\ seen = IF invocation.pc = "done" THEN Written(invocation.data, Chunks)
                     ELSE invocation.previous

\* C24 as stated: at every instant of a save_rfps or save_site_configs call,
\* and after one that failed or was interrupted at any step, a reader of the
\* target file sees the complete previous or the complete new contents, and
\* after a failed save no temporary file exists
C24_AtomicSaveAndNoTempAfterFailure ==
    /\ ReaderSeesOldOrNew
    /\ invocation.pc = "raised" =>
           ~disk.files[with_suffix(TargetFile(invocation.name))].exists

\* C24 amended: the reader sees the complete previous or the complete new
\* contents at every instant; a save that fails inside the try block
\* (conversion, opening, writing, rename) leaves no temporary file, while one
\* that fails in the backup made before it leaves the temporary file of an
\* earlier interrupted save as it found it
C24_AtomicSaveAndTempRemovedByHandler ==
    /\ ReaderSeesOldOrNew
    /\ invocation.pc = "raised" =>
           LET temp == disk.files[with_suffix(TargetFile(invocation.name))]
           IN IF invocation.failed_at = "backup" THEN temp = invocation.temp_before
              ELSE ~temp.exists

\* C24 witness: a save that had written part of its temporary file failed, over
\* an existing target: the target still holds the previous contents and the
\* temporary file is gone
C24_Witness ==
    /\ invocation.pc = "raised"
    /\ invocation.failed_at = "write"
    /\ invocation.previous.exists
    /\ disk.files[TargetFile(invocation.name)] = invocation.previous
    /\ ~disk.files[with_suffix(TargetFile(invocation.name))].exists

----------------------------------------------------------------------------
(* models/serialization.py: DataManager.load_rfps *)

\* the number of records of a stored document
MaxRecords == 2

\* what rfps.json can be: no file, text that is not JSON, an empty file, JSON
\* of another structure, a list of records, an object with a list under 'rfps'.
\* The records a document can hold: two valid RFPs, one that fails
\* validate_rfp_data but that RFP.from_dict accepts (a malformed URL), and
\* one that lacks required fields, on which RFP.from_dict raises TypeError
StoredDocuments ==
    {[exists |-> FALSE, json |-> FALSE, structure |-> "none", records |-> <<>>]}
    \cup {[exists |-> TRUE, json |-> FALSE, structure |-> t, records |-> <<>>] :
                t \in {"{ invalid json }", ""}}
    \cup {[exists |-> TRUE, json |-> TRUE, structure |-> "other", records |-> <<>>]}
    \cup {[exists |-> TRUE, json |-> TRUE, structure |-> t, records |-> r] :
                t \in {"list", "rfps"},
                r \in UNION {[1..n -> {"rfp_a", "rfp_b", "bad_url", "missing_fields"}] :
                                n \in 0..MaxRecords}}

RECURSIVE LoadRecords(_, _)
\* the loop of load_rfps over the records: a record that fails validation is
\* skipped in strict mode; one on which from_dict raises is skipped in strict
\* mode and ends the load with its exception otherwise
LoadRecords(rfp_dicts, validate) ==
    IF rfp_dicts = <<>> THEN [value |-> <<>>]
    ELSE LET rfp_dict == Head(rfp_dicts)
             passes == rfp_dict \in {"rfp_a", "rfp_b"}
             rest == LoadRecords(Tail(rfp_dicts), validate)
         IN IF validate /\ ~passes THEN rest
            ELSE IF rfp_dict = "missing_fields" THEN [exception |-> "TypeError"]
            ELSE IF IsException(rest) THEN rest
            ELSE [value |-> <<rfp_dict>> \o rest.value]

\* DataManager.load_rfps(validate): what it returns or raises
load_rfps(file, validate) ==
    IF ~file.exists THEN [value |-> <<>>]
    ELSE IF ~file.json THEN [exception |-> "JSONDecodeError"]
    ELSE IF file.structure = "other" THEN [exception |-> "ValueError"]
    ELSE LoadRecords(file.records, validate)

LoadInit ==
    /\ site = <<>> /\ constructed = <<>> /\ ops = <<>>
    /\ store = <<>> /\ site_configs = <<>> /\ request_count = <<>>
    /\ result = <<>> /\ last = <<>> /\ scraped = <<>> /\ visits = 0
    /\ pc = "done" /\ sites_file = <<>> /\ loaded = <<>> /\ todo = <<>>
    /\ rfp_urls = <<>> /\ force_full_scan = FALSE /\ results = <<>>
    /\ site_log = <<>>
    /\ now = 0 /\ runs = 0 /\ tests = <<>> /\ saved_configs = <<>>
    /\ clock = 0 /\ last_request_time = <<>> /\ session_start = 0
    /\ last_fetch = <<>> /\ last_request_at = <<>> /\ window = <<>>
    /\ previous_rfps = <<>> /\ current_rfps = <<>> /\ changes = <<>>
    /\ changes_file = <<>> /\ field_mappings = <<>> /\ robots_cache = <<>>
    /\ disk \in StoredDocuments
    /\ invocation = [validate |-> "none"]

\* data_manager.load_rfps(validate=validate): the file is only read
LoadRfps(validate) ==
    /\ invocation' = [validate |-> validate, before |-> disk,
                      returned |-> load_rfps(disk, validate)]
    /\ UNCHANGED <<siteVars, coreVars, runVars, clockVars, gateVars, changeVars,
                   changes_file, disk, field_mappings, robots_cache>>

SpecLoad == LoadInit /\ [][\E validate \in BOOLEAN : LoadRfps(validate)]_vars

\* C25: load_rfps on a file that is not valid JSON raises in strict mode and
\* returns an empty list in lenient mode (validate=False), and leaves the
\* file as it was in both modes
C25_CorruptedFileRaisesStrictEmptyLenient ==
    ("returned" \in DOMAIN invocation /\ invocation.before.exists
            /\ ~invocation.before.json) =>
        /\ disk = invocation.before
        /\ IF invocation.validate THEN IsException(invocation.returned)
           ELSE invocation.returned = [value |-> <<>>]

----------------------------------------------------------------------------
(* models/site_config.py, scrapers/location_binder.py: the field_mappings
   list of a SiteConfig *)

\* the number of calls made on the site configuration
MaxMappingCalls == 4

\* the number of entries of the field_specs handed to create_site_configuration
MaxSpecs == 2

\* SiteConfig.add_field_mapping without the alias check
add_field_mapping_NoCheck(mappings, field_mapping) ==
    [value |-> Append(mappings, field_mapping)]

\* SiteConfig.add_field_mapping: the list it leaves, or the exception
add_field_mapping(mappings, field_mapping) ==
    LET existing_aliases == {mappings[i].alias : i \in 1..Len(mappings)}
    IN IF field_mapping.alias \in existing_aliases THEN [exception |-> "ValueError"]
       ELSE [value |-> Append(mappings, field_mapping)]

\* SiteConfig.remove_field_mapping: the list it leaves and what it returns
remove_field_mapping(mappings, alias) ==
    LET keep(fm) == fm.alias # alias
        kept == SelectSeq(mappings, keep)
    IN [field_mappings |-> kept, value |-> Len(kept) < Len(mappings)]

\* LocationBinder.create_site_configuration: the field_mappings of the
\* SiteConfig it returns, or the exception. Each entry of field_specs is
\* turned into FieldMapping(alias=..., selector=..., data_type=...,
\* training_value=..., confidence_score=..., status=..., fallback_selectors=...),
\* and the dataclass has no field named status.
create_site_configuration(field_specs) ==
    LET keywords == {"alias", "selector", "data_type", "training_value",
                     "confidence_score", "status", "fallback_selectors"}
        fields == {"alias", "selector", "data_type", "training_value",
                   "confidence_score", "xpath", "regex_pattern", "fallback_selectors",
                   "last_validated", "validation_errors", "expected_format"}
    IN IF field_specs # <<>> /\ ~(keywords \subseteq fields)
       THEN [exception |-> "TypeError"]
       ELSE [value |-> [i \in 1..Len(field_specs) |->
                            [alias |-> field_specs[i],
                             selector |-> "." \o field_specs[i]]]]

\* a SiteConfig constructed with no field mappings
MappingsInit ==
    /\ site = <<>> /\ constructed = <<>> /\ ops = <<>>
    /\ store = <<>> /\ site_configs = <<>> /\ request_count = <<>>
    /\ result = <<>> /\ last = <<>> /\ scraped = <<>> /\ visits = 0
    /\ pc = "done" /\ sites_file = <<>> /\ loaded = <<>> /\ todo = <<>>
    /\ rfp_urls = <<>> /\ force_full_scan = FALSE /\ results = <<>>
    /\ site_log = <<>>
    /\ now = 0 /\ runs = 0 /\ tests = <<>> /\ saved_configs = <<>>
    /\ clock = 0 /\ last_request_time = <<>> /\ session_start = 0
    /\ last_fetch = <<>> /\ last_request_at = <<>> /\ window = <<>>
    /\ previous_rfps = <<>> /\ current_rfps = <<>> /\ changes = <<>>
    /\ changes_file = <<>> /\ disk = <<>> /\ robots_cache = <<>>
    /\ field_mappings = <<>>
    /\ invocation = [op |-> "SiteConfig", before |-> <<>>, returned |-> [value |-> "None"]]

\* binder.create_site_configuration(sample_url, field_specs, site_info): the
\* configuration it returns replaces the one at hand
CreateSiteConfiguration(field_specs) ==
    /\ runs < MaxMappingCalls
    /\ runs' = runs + 1
    /\ LET created == create_site_configuration(field_specs)
       IN /\ field_mappings' = IF IsException(created) THEN field_mappings
                               ELSE created.value
          /\ invocation' = [op |-> "create_site_configuration", before |-> field_mappings,
                            returned |-> IF IsException(created) THEN created
                                         ELSE [value |-> "SiteConfig"]]
    /\ UNCHANGED <<siteVars, coreVars, runVars, now, tests, saved_configs, gateVars,
                   changeVars, changes_file, disk, robots_cache>>

\* site_config.add_field_mapping(field_mapping)
AddFieldMapping(field_mapping) ==
    /\ runs < MaxMappingCalls
    /\ runs' = runs + 1
    /\ LET added == add_field_mapping(field_mappings, field_mapping)
       IN /\ field_mappings' = IF IsException(added) THEN field_mappings
                               ELSE added.value
          /\ invocation' = [op |-> "add_field_mapping", before |-> field_mappings,
                            alias |-> field_mapping.alias,
                            returned |-> IF IsException(added) THEN added
                                         ELSE [value |-> "None"]]
    /\ UNCHANGED <<siteVars, coreVars, runVars, now, tests, saved_configs, gateVars,
                   changeVars, changes_file, disk, robots_cache>>

\* site_config.remove_field_mapping(alias)
RemoveFieldMapping(alias) ==
    /\ runs < MaxMappingCalls
    /\ runs' = runs + 1
    /\ LET removed == remove_field_mapping(field_mappings, alias)
       IN /\ field_mappings' = removed.field_mappings
          /\ invocation' = [op |-> "remove_field_mapping", before |-> field_mappings,
                            alias |-> alias,
                            returned |-> [value |-> IF removed.value THEN "True"
                                                    ELSE "False"]]
    /\ UNCHANGED <<siteVars, coreVars, runVars, now, tests, saved_configs, gateVars,
                   changeVars, changes_file, disk, robots_cache>>

SpecMappings ==
    MappingsInit /\
    [][\/ \E field_specs \in UNION {[1..n -> Aliases] : n \in 0..MaxSpecs} :
            CreateSiteConfiguration(field_specs)
       \/ \E alias \in Aliases, selector \in {".primary", ".other"} :
            AddFieldMapping([alias |-> alias, selector |-> selector])
       \/ \E alias \in Aliases \cup {"nonexistent"} : RemoveFieldMapping(alias)]_vars

----------------------------------------------------------------------------
(* models/validation.py: validate_olympic_relevance, as it computes *)

\* the keyword lists of validate_olympic_relevance, cut to two keywords each;
\* 'screening' is in the surveillance list and in the security list
KeywordLists ==
    [olympic |-> <<"2028", "olympic">>,
     surveillance |-> <<"surveillance", "screening">>,
     tech |-> <<"ai", "drone">>,
     security |-> <<"police", "screening">>]

\* scores are counted in fortieths, so that the weight 1.5, the bonus 1.5 and
\* the division by 10 stay whole numbers
Fortieths == 40

\* the score is left as it is
normalize_NoCap(relevance_score) == relevance_score

\* min(relevance_score / 10.0, 1.0), on a score already counted in fortieths
\* of ten
normalize(relevance_score) == Min(relevance_score, Fortieths)

\* validate_olympic_relevance(text), the text being given by the set of
\* keywords that occur in it: the four loops add 2.0, 3.0, 1.0 and 1.5 per
\* keyword found (8, 12, 4 and 6 fortieths of ten)
relevance(text) ==
    LET order == <<"olympic", "surveillance", "tech", "security">>
        weights == <<8, 12, 4, 6>>
        found(keyword) == keyword \in text
        matched(i) == SelectSeq(KeywordLists[order[i]], found)
        matched_keywords == matched(1) \o matched(2) \o matched(3) \o matched(4)
        summed == Len(matched(1)) * weights[1] + Len(matched(2)) * weights[2]
                  + Len(matched(3)) * weights[3] + Len(matched(4)) * weights[4]
        keyword_categories ==
            Cardinality({i \in 1..4 :
                \E k \in Range(matched_keywords) : k \in Range(KeywordLists[order[i]])})
        boosted == IF keyword_categories >= 2 THEN (summed * 3) \div 2 ELSE summed
        relevance_score == normalize(boosted)
    IN IF text = {} THEN [is_relevant |-> FALSE, matched_keywords |-> <<>>,
                          relevance_score |-> 0]
       ELSE [is_relevant |-> 10 * relevance_score >= 3 * Fortieths
                                \/ Len(matched_keywords) >= 2,
             matched_keywords |-> matched_keywords,
             relevance_score |-> relevance_score]

RelevanceInit ==
    /\ site = <<>> /\ constructed = <<>> /\ ops = <<>>
    /\ store = <<>> /\ site_configs = <<>> /\ request_count = <<>>
    /\ result = <<>> /\ last = <<>> /\ scraped = <<>> /\ visits = 0
    /\ pc = "done" /\ sites_file = <<>> /\ loaded = <<>> /\ todo = <<>>
    /\ rfp_urls = <<>> /\ force_full_scan = FALSE /\ results = <<>>
    /\ site_log = <<>>
    /\ now = 0 /\ runs = 0 /\ tests = <<>> /\ saved_configs = <<>>
    /\ clock = 0 /\ last_request_time = <<>> /\ session_start = 0
    /\ last_fetch = <<>> /\ last_request_at = <<>> /\ window = <<>>
    /\ previous_rfps = <<>> /\ current_rfps = <<>> /\ changes = <<>>
    /\ changes_file = <<>> /\ disk = <<>> /\ robots_cache = <<>>
    /\ field_mappings = <<>>
    /\ \E text \in SUBSET UNION {Range(KeywordLists[l]) : l \in DOMAIN KeywordLists} :
            invocation = [text |-> text]

\* validate_olympic_relevance(text)
ValidateOlympicRelevance ==
    /\ "returned" \notin DOMAIN invocation
    /\ invocation' = [text |-> invocation.text, returned |-> relevance(invocation.text)]
    /\ UNCHANGED <<siteVars, coreVars, runVars, clockVars, gateVars, changeVars,
                   changes_file, disk, field_mappings, robots_cache>>

SpecRelevance == RelevanceInit /\ [][ValidateOlympicRelevance]_vars

\* the number of keywords of the list that occur in the text
HitsOf(list, text) == Cardinality({i \in 1..Len(KeywordLists[list]) :
                                      KeywordLists[list][i] \in text})

\* C27: the score is min(1, raw * bonus / 10), raw adding 2 per Olympic hit,
\* 3 per surveillance hit, 1 per general-technology hit and 1.5 per
\* security-service hit, bonus being 1.5 exactly when the hits come from at
\* least two categories; the score lies within [0, 1]; the text is relevant
\* exactly when the score is at least 0.3 or two distinct keywords matched
C27_ScoreFormulaAndRelevance ==
    "returned" \in DOMAIN invocation =>
        LET text == invocation.text
            \* ten times raw: 20, 30, 10 and 15 per hit
            raw10 == 20 * HitsOf("olympic", text) + 30 * HitsOf("surveillance", text)
                     + 10 * HitsOf("tech", text) + 15 * HitsOf("security", text)
            categories == Cardinality({l \in DOMAIN KeywordLists : HitsOf(l, text) > 0})
            \* twenty times raw * bonus
            product20 == IF categories >= 2 THEN 3 * raw10 ELSE 2 * raw10
            \* the score in fortieths is 40 * product20 / 200
            score == invocation.returned.relevance_score
        IN /\ 5 * score = Min(product20, 5 * Fortieths)
           /\ score >= 0 /\ score <= Fortieths
           /\ invocation.returned.is_relevant
                <=> (10 * score >= 3 * Fortieths
                        \/ Cardinality(Range(invocation.returned.matched_keywords)) >= 2)

\* C27 witness: a text with hits in three categories whose raw score times the
\* bonus is below 10, and a relevant answer
C27_Witness ==
    /\ "returned" \in DOMAIN invocation
    /\ invocation.text = {"2028", "ai", "police"}
    /\ invocation.returned.relevance_score = 27
    /\ invocation.returned.is_relevant

----------------------------------------------------------------------------
(* scrapers/location_binder.py: LocationBinder.validate_field_mapping *)

\* the number of fallback selectors of a mapping
MaxFallbacks == 2

\* LocationBinder._extract_value_with_selector, for the selectors of the
\* model: the value comes from the words the selector contains
_extract_value_with_selector(selector) ==
    IF selector \in {".status"} THEN "Active"
    ELSE IF selector \in {".amount"} THEN "$50,000"
    ELSE IF selector \in {".date-posted"} THEN "2024-12-16"
    ELSE None

RECURSIVE try_fallbacks_NoBreak(_)
\* the loop over the fallback selectors without its break
try_fallbacks_NoBreak(fallback_selectors) ==
    IF fallback_selectors = <<>> THEN [extracted_value |-> None, tried |-> <<>>, warnings |-> <<>>]
    ELSE LET fallback_selector == Head(fallback_selectors)
             extracted_value == _extract_value_with_selector(fallback_selector)
             rest == try_fallbacks_NoBreak(Tail(fallback_selectors))
         IN [extracted_value |-> IF rest.extracted_value # None THEN rest.extracted_value
                                 ELSE extracted_value,
             tried |-> <<fallback_selector>> \o rest.tried,
             warnings |-> (IF extracted_value # None
                           THEN <<[kind |-> "fallback worked", about |-> fallback_selector]>>
                           ELSE <<>>) \o rest.warnings]

RECURSIVE try_fallbacks(_)
\* the loop of validate_field_mapping over the fallback selectors: the value
\* found, the selectors tried and the warning added
try_fallbacks(fallback_selectors) ==
    IF fallback_selectors = <<>> THEN [extracted_value |-> None, tried |-> <<>>, warnings |-> <<>>]
    ELSE LET fallback_selector == Head(fallback_selectors)
             extracted_value == _extract_value_with_selector(fallback_selector)
             rest == try_fallbacks(Tail(fallback_selectors))
         IN IF extracted_value # None
            THEN [extracted_value |-> extracted_value, tried |-> <<fallback_selector>>,
                  warnings |-> <<[kind |-> "fallback worked", about |-> fallback_selector]>>]
            ELSE [rest EXCEPT !.tried = <<fallback_selector>> \o @]

\* LocationBinder.validate_field_mapping for a text field: the
\* ValidationResult, with the value extracted and the selectors tried
validate_field_mapping(field_mapping) ==
    LET \* validate_css_selector: brackets and parentheses must match
        selector_is_valid == field_mapping.selector \notin {"", "div[status"}
        primary == _extract_value_with_selector(field_mapping.selector)
        fallback == IF primary = None THEN try_fallbacks(field_mapping.fallback_selectors)
                    ELSE [extracted_value |-> primary, tried |-> <<>>, warnings |-> <<>>]
        \* _values_are_similar: the lengths of the two values without
        \* punctuation, the shorter at least 0.6 of the longer
        length(value) == IF value = "Active" THEN 6
                         ELSE IF value = "$50,000" THEN 5
                         ELSE IF value = "2024-12-16" THEN 8
                         ELSE 23
        v1 == length(fallback.extracted_value)
        v2 == length(field_mapping.training_value)
        similar == 10 * Min(v1, v2) >= 6 * Max(v1, v2)
    IN IF ~selector_is_valid
       THEN [is_valid |-> FALSE,
             errors |-> <<IF field_mapping.selector = "" THEN "CSS selector cannot be empty"
                          ELSE "Unmatched brackets in selector">>,
             warnings |-> <<>>, extracted_value |-> None, tried |-> <<>>]
       ELSE IF fallback.extracted_value = None
       THEN [is_valid |-> FALSE,
             errors |-> <<"No value could be extracted with any selector">>,
             warnings |-> <<>>, extracted_value |-> None,
             tried |-> <<field_mapping.selector>> \o fallback.tried]
       ELSE [is_valid |-> TRUE, errors |-> <<>>,
             warnings |-> fallback.warnings \o
                          (IF similar THEN <<>>
                           ELSE <<[kind |-> "differs from training value",
                                   about |-> fallback.extracted_value]>>),
             extracted_value |-> fallback.extracted_value,
             tried |-> <<field_mapping.selector>> \o fallback.tried]

ValidateInit ==
    /\ site = <<>> /\ constructed = <<>> /\ ops = <<>>
    /\ store = <<>> /\ site_configs = <<>> /\ request_count = <<>>
    /\ result = <<>> /\ last = <<>> /\ scraped = <<>> /\ visits = 0
    /\ pc = "done" /\ sites_file = <<>> /\ loaded = <<>> /\ todo = <<>>
    /\ rfp_urls = <<>> /\ force_full_scan = FALSE /\ results = <<>>
    /\ site_log = <<>>
    /\ now = 0 /\ runs = 0 /\ tests = <<>> /\ saved_configs = <<>>
    /\ clock = 0 /\ last_request_time = <<>> /\ session_start = 0
    /\ last_fetch = <<>> /\ last_request_at = <<>> /\ window = <<>>
    /\ previous_rfps = <<>> /\ current_rfps = <<>> /\ changes = <<>>
    /\ changes_file = <<>> /\ disk = <<>> /\ robots_cache = <<>>
    /\ invocation = <<>>
    /\ LET selectors == {".status", ".amount", ".date-posted", ".primary-selector",
                         ".nonexistent-selector"}
       IN field_mappings \in
            [selector : selectors \cup {"div[status"},
             fallback_selectors : UNION {[1..n -> selectors] : n \in 0..MaxFallbacks},
             training_value : {"Active", "Department of Public Works"}]

\* location_binder.validate_field_mapping(field_mapping, page_content)
ValidateFieldMapping ==
    /\ invocation = <<>>
    /\ invocation' = validate_field_mapping(field_mappings)
    /\ UNCHANGED <<siteVars, coreVars, runVars, clockVars, gateVars, changeVars,
                   changes_file, disk, field_mappings, robots_cache>>

SpecValidate == ValidateInit /\ [][ValidateFieldMapping]_vars

\* the selectors of the mapping, primary first, and those that resolve
AllSelectors == <<field_mappings.selector>> \o field_mappings.fallback_selectors
Resolving == {i \in 1..Len(AllSelectors) :
                _extract_value_with_selector(AllSelectors[i]) # None}
FirstResolving == CHOOSE i \in Resolving : \A j \in Resolving : i <= j

\* C28: with a syntactically valid primary selector, validate_field_mapping
\* succeeds exactly when the primary or a fallback selector resolves a value;
\* when the primary fails, the value used is that of the first fallback in
\* declared order that resolves, later fallbacks are not tried and one warning
\* names that fallback; when nothing resolves the result is invalid with a
\* no-value error
C28_FirstResolvingSelectorIsUsed ==
    (invocation # <<>> /\ field_mappings.selector # "div[status") =>
        /\ invocation.is_valid <=> Resolving # {}
        /\ Resolving = {} =>
              invocation.errors = <<"No value could be extracted with any selector">>
        /\ Resolving # {} =>
              /\ invocation.extracted_value
                    = _extract_value_with_selector(AllSelectors[FirstResolving])
              /\ invocation.tried = SubSeq(AllSelectors, 1, FirstResolving)
              /\ LET named == {k \in 1..Len(invocation.warnings) :
                                 invocation.warnings[k].kind = "fallback worked"}
                 IN IF FirstResolving = 1 THEN named = {}
                    ELSE /\ Cardinality(named) = 1
                         /\ \A k \in named :
                              invocation.warnings[k].about = AllSelectors[FirstResolving]

\* C28 witness: the primary selector and the first fallback resolved nothing,
\* the second fallback did, and the value differs from the training value
C28_Witness ==
    /\ invocation # <<>>
    /\ field_mappings.selector = ".primary-selector"
    /\ field_mappings.fallback_selectors = <<".nonexistent-selector", ".amount">>
    /\ invocation.is_valid
    /\ invocation.extracted_value = "$50,000"
    /\ Len(invocation.warnings) = 2

----------------------------------------------------------------------------
(* scrapers/base_scraper.py: the robots.txt cache of check_robots_txt *)

\* the number of permission checks and waits of a behaviour
MaxChecks == 4

\* self.robots_cache_ttl = timedelta(hours=24), in hours
robots_cache_ttl == 24

\* a cache entry is never taken as expired
is_cached_NeverExpires(entry, t) == entry.cached

\* the test of check_robots_txt for answering from the cache at hour t
is_cached(entry, t) == entry.cached /\ t - entry.last_checked < robots_cache_ttl

\* RobotFileParser.can_fetch on the rules read
can_fetch(rules, url) == ~(rules = "disallow /private" /\ url.path = "/private/rfps")

RobotsInit ==
    /\ site = <<>> /\ constructed = <<>> /\ ops = <<>>
    /\ store = <<>> /\ site_configs = <<>> /\ request_count = <<>>
    /\ result = <<>> /\ last = <<>> /\ scraped = <<>> /\ visits = 0
    /\ pc = "done" /\ sites_file = <<>> /\ loaded = <<>> /\ todo = <<>>
    /\ rfp_urls = <<>> /\ force_full_scan = FALSE /\ results = <<>>
    /\ site_log = <<>>
    /\ now = StartHour /\ runs = 0 /\ tests = <<>> /\ saved_configs = <<>>
    /\ clock = 0 /\ last_request_time = <<>> /\ session_start = 0
    /\ last_fetch = <<>> /\ last_request_at = <<>> /\ window = <<>>
    /\ previous_rfps = <<>> /\ current_rfps = <<>> /\ changes = <<>>
    /\ changes_file = <<>> /\ disk = <<>> /\ field_mappings = <<>>
    /\ robots_cache = [o \in {"https://lacounty.gov", "https://lacity.org"} |->
                          [cached |-> FALSE, rules |-> "none", last_checked |-> NoTime]]
    /\ invocation = [at |-> NoTime]

\* self.check_robots_txt(url) at hour `now`, the origin's robots.txt giving
\* `served` if it is fetched
CheckRobotsTxt(url, served) ==
    /\ runs < MaxChecks
    /\ runs' = runs + 1
    /\ LET entry == robots_cache[url.origin]
           hit == is_cached(entry, now)
       IN /\ robots_cache' =
                IF hit \/ served = "unreachable" THEN robots_cache
                ELSE [robots_cache EXCEPT ![url.origin] =
                        [cached |-> TRUE, rules |-> served, last_checked |-> now]]
          /\ invocation' =
                [at |-> now, url |-> url, before |-> entry, fetched |-> ~hit,
                 served |-> IF hit THEN "not fetched" ELSE served,
                 returned |-> IF hit THEN can_fetch(entry.rules, url)
                              ELSE IF served = "unreachable" THEN TRUE
                              ELSE can_fetch(served, url)]
    /\ UNCHANGED <<siteVars, coreVars, runVars, now, tests, saved_configs, gateVars,
                   changeVars, changes_file, disk, field_mappings>>

\* time passes between two checks
RobotsWait(d) ==
    /\ runs < MaxChecks
    /\ runs' = runs + 1
    /\ now' = now + d
    /\ UNCHANGED <<siteVars, coreVars, runVars, tests, saved_configs, gateVars,
                   changeVars, auxVars>>

\* the URLs checked are given as origin and path; a fetch of an origin's
\* robots.txt gives rules that allow every path, rules that disallow /private,
\* or no answer (urlopen raises)
SpecRobots ==
    RobotsInit /\
    [][\/ \E url \in {[origin |-> "https://lacounty.gov", path |-> "/rfps"],
                       [origin |-> "https://lacounty.gov", path |-> "/private/rfps"],
                       [origin |-> "https://lacity.org", path |-> "/private/rfps"]},
             served \in {"allow all", "disallow /private", "unreachable"} :
            CheckRobotsTxt(url, served)
       \/ \E d \in {12, 13} : RobotsWait(d)]_vars

\* the last call was a check made on an origin whose robots.txt had been
\* fetched less than, or more than, 24 hours before
CheckedWithin24h ==
    /\ invocation.at # NoTime /\ invocation.before.cached
    /\ invocation.at - invocation.before.last_checked < 24
CheckedAfter24h ==
    /\ invocation.at # NoTime /\ invocation.before.cached
    /\ invocation.at - invocation.before.last_checked > 24

\* a check within 24 hours of the fetch is answered from the cache without a
\* fetch, and leaves the cache entry as it was
AnsweredFromCache ==
    CheckedWithin24h =>
        /\ ~invocation.fetched
        /\ invocation.returned = can_fetch(invocation.before.rules, invocation.url)
        /\ robots_cache[invocation.url.origin] = invocation.before

----------------------------------------------------------------------------
(* models/serialization.py: add_rfp, update_rfp and remove_rfp on the list
   kept in rfps.json *)

\* the number of calls made on the store
MaxStoreCalls == 4

\* DataManager.remove_rfp: the list without the records of that id
remove_rfp(rfps, rfp_id) ==
    LET keep(rfp) == rfp.id # rfp_id
    IN SelectSeq(rfps, keep)

\* the data directory is new: there is no rfps.json and load_rfps gives []
StoreInit ==
    /\ site = <<>> /\ constructed = <<>> /\ ops = <<>>
    /\ site_configs = <<>> /\ request_count = <<>>
    /\ result = <<>> /\ last = <<>> /\ scraped = <<>> /\ visits = 0
    /\ pc = "done" /\ sites_file = <<>> /\ loaded = <<>> /\ todo = <<>>
    /\ rfp_urls = <<>> /\ force_full_scan = FALSE /\ results = <<>>
    /\ site_log = <<>>
    /\ now = 0 /\ runs = 0 /\ tests = <<>> /\ saved_configs = <<>>
    /\ clock = 0 /\ last_request_time = <<>> /\ session_start = 0
    /\ last_fetch = <<>> /\ last_request_at = <<>> /\ window = <<>>
    /\ previous_rfps = <<>> /\ current_rfps = <<>> /\ changes = <<>>
    /\ changes_file = <<>> /\ disk = <<>> /\ field_mappings = <<>>
    /\ robots_cache = <<>>
    /\ store = <<>>
    /\ invocation = [op |-> "DataManager", before |-> <<>>, returned |-> "None"]

\* data_manager.add_rfp(rfp), update_rfp(rfp) or remove_rfp(rfp.id): the
\* list is loaded, changed and, if it changed, saved
StoreCall(op, rfp) ==
    /\ runs < MaxStoreCalls
    /\ runs' = runs + 1
    /\ store' = CASE op = "add_rfp" -> add_rfp(store, rfp)
                  [] op = "update_rfp" -> update_rfp(store, rfp)
                  [] op = "remove_rfp" -> remove_rfp(store, rfp.id)
    /\ invocation' =
          [op |-> op, rfp |-> rfp, before |-> store,
           returned |->
              CASE op = "add_rfp" -> "None"
                [] op = "update_rfp" ->
                      IF \E i \in 1..Len(store) : store[i].id = rfp.id
                      THEN "True" ELSE "False"
                [] op = "remove_rfp" ->
                      IF Len(remove_rfp(store, rfp.id)) < Len(store)
                      THEN "True" ELSE "False"]
    /\ UNCHANGED <<site, constructed, ops, site_configs, request_count, result, last,
                   scraped, visits, runVars, now, tests, saved_configs, gateVars,
                   changeVars, changes_file, disk, field_mappings, robots_cache>>

SpecStore ==
    StoreInit /\
    [][\E rfp \in [id : {"rfp_a", "rfp_b", "rfp_c"},
                    url : {"https://lacounty.gov/rfp/1", "https://lacounty.gov/rfp/2"}] :
          \/ StoreCall("add_rfp", rfp)
          \/ StoreCall("update_rfp", rfp)
          \/ StoreCall("remove_rfp", rfp)]_vars

\* C30: starting from an empty store, after any sequence of add_rfp,
\* update_rfp and remove_rfp calls no two stored RFPs share an id and no two
\* share a URL; add_rfp of an RFP whose id or URL is stored leaves the store
\* unchanged; update_rfp or remove_rfp of an id that is not stored returns
\* False and leaves the store unchanged
C30_StoredIdsAndUrlsAreUnique ==
    /\ \A i, j \in 1..Len(store) :
          (store[i].id = store[j].id \/ store[i].url = store[j].url) => i = j
    /\ (invocation.op = "add_rfp"
          /\ \E i \in 1..Len(invocation.before) :
                \/ invocation.before[i].id = invocation.rfp.id
                \/ invocation.before[i].url = invocation.rfp.url)
         => store = invocation.before
    /\ (invocation.op \in {"update_rfp", "remove_rfp"}
          /\ \A i \in 1..Len(invocation.before) :
                invocation.before[i].id # invocation.rfp.id)
         => invocation.returned = "False" /\ store = invocation.before

====
